---- MODULE Spec2Model ----
(***************************************************************************)
(* State-machine model of the skill installer (src/src/installer.ts), the  *)
(* remote fetch-and-scan step (src/src/security-scanner.ts) and the sync   *)
(* engine (src/src/sync-engine.ts) with its lock file and local registry.  *)
(*                                                                         *)
(* Text is modelled as a sequence of one-character strings, a path as a    *)
(* sequence of segments.  A file's content is abstracted to the number of  *)
(* distinct critical and warning patterns the scanner finds in it; a hash  *)
(* is an injective function of the hashed contents.  A directory that is   *)
(* absent is the record with present = FALSE.  Remote services (GitHub,    *)
(* the search API) keep no state in the model: every fetch draws what the  *)
(* remote returns at that moment, so the remote may change between any two *)
(* requests.  Filesystem calls inside the packages directory succeed on    *)
(* paths that exist and writing the lock file succeeds; reading the config *)
(* file or the lock file can throw.                                        *)
(***************************************************************************)
EXTENDS Integers, Sequences, FiniteSets, TLC

VARIABLES
    disk,       \* packages directory: skill name -> directory
    registry,   \* skillManager.registry: skill name -> registered content hash
    lockFile,   \* the persisted lock file (skillsync.lock)
    syncing,    \* SyncEngine.syncing
    call,       \* the sync() calls: caller -> position and locals
    inst,       \* the installSkill call made by the install tool
    mgr,        \* SkillManager: initialized, watcher, debounceTimer, running calls
    diffRun,    \* a direct call of computeSyncDiff: its arguments and result
    direct,     \* a direct call of an exported function: its arguments and result
    fetchRun,   \* one fetchAndScanSkill or fetchSkillFiles call, request by request
    lockIo,     \* the lock file path and its temporary file, write step by step
    watch,      \* the watch callback and its debounce timers against the clock
    discovery,  \* phase 1 of one sync: its queries and pacing delays in order
    periodic    \* SyncEngine.timer, the interval timers of the process, running calls

\* the variables of the calls that are followed on their own
others == <<direct, fetchRun, lockIo, watch, discovery, periodic>>

vars == <<disk, registry, lockFile, syncing, call, inst, mgr, diffRun, others>>

\* ------------------------------------------------------------------ text

Str_n1 == <<"n", "1">>
Str_n2 == <<"n", "2">>
Str_o == <<"o">>
Str_r == <<"r">>
Str_main == <<"m", "a", "i", "n">>
Str_tree == <<"t", "r", "e", "e">>
Str_traversal == <<".", ".", "/", "x">>
Str_traversal2 == <<".", ".", "/", ".", ".", "/", "x">>
Str_etcPasswd == <<".", ".", "/", "e", "t", "c", "/", "p", "a", "s", "s", "w", "d">>
Str_claude == <<".", "c", "l", "a", "u", "d", "e">>
Str_skills == <<"s", "k", "i", "l", "l", "s">>
Str_SkillMd == <<"S", "K", "I", "L", "L", ".", "m", "d">>
Str_runSh == <<"r", "u", "n", ".", "s", "h">>

Lower == {"a", "b", "c", "d", "e", "f", "g", "h", "i", "j", "k", "l", "m",
          "n", "o", "p", "q", "r", "s", "t", "u", "v", "w", "x", "y", "z"}
Upper == {"A", "B", "C", "D", "E", "F", "G", "H", "I", "J", "K", "L", "M",
          "N", "O", "P", "Q", "R", "S", "T", "U", "V", "W", "X", "Y", "Z"}
Digit == {"0", "1", "2", "3", "4", "5", "6", "7", "8", "9"}
AlphaNum == Lower \cup Upper \cup Digit

MaxNameLen == 64

\* VALID_SKILL_NAME = /^[a-zA-Z0-9][a-zA-Z0-9_-]{0,63}$/
validateSkillName(name) ==
    /\ Len(name) >= 1
    /\ Len(name) <= MaxNameLen
    /\ name[1] \in AlphaNum
    /\ \A i \in 2..Len(name) : name[i] \in AlphaNum \cup {"_", "-"}

\* ------------------------------------------------------------------ URLs

ALLOWED_GITHUB_HOSTS == {"github.com", "www.github.com"}

UrlChars == AlphaNum \cup {"_", ".", "-"}

SegOk(seg) == Len(seg) >= 1 /\ \A i \in 1..Len(seg) : seg[i] \in UrlChars

GoodUrl(last) ==
    [protocol |-> "https:", hostname |-> "github.com",
     segs |-> <<Str_o, Str_r, Str_tree, Str_main, last>>]

Url1 == GoodUrl(Str_n1)
Url2 == GoodUrl(Str_n2)
UrlHttp == [Url1 EXCEPT !.protocol = "http:"]
UrlEvilHost == [Url1 EXCEPT !.hostname = "evil.example"]
UrlNoTree == [Url1 EXCEPT !.segs = <<Str_o, Str_r>>]
NoUrl == [protocol |-> "", hostname |-> "", segs |-> <<>>]

\* validateGithubUrl: host allow-list, https, /owner/repo/tree/ref/path
validateGithubUrl(url) ==
    /\ url.hostname \in ALLOWED_GITHUB_HOSTS
    /\ url.protocol = "https:"
    /\ Len(url.segs) >= 5
    /\ SegOk(url.segs[1])
    /\ SegOk(url.segs[2])
    /\ url.segs[3] = Str_tree
    /\ SegOk(url.segs[4])

ParsedGitHubUrl(url) ==
    [owner |-> url.segs[1], repo |-> url.segs[2], ref |-> url.segs[4],
     path |-> SubSeq(url.segs, 5, Len(url.segs))]

\* inferSkillName: the last path segment, else the repository name
inferSkillName(parsed) ==
    IF Len(parsed.path) > 0 THEN parsed.path[Len(parsed.path)] ELSE parsed.repo

\* ------------------------------------------------------------------ scanning

Clean == [crit |-> 0, warn |-> 0]
OneWarning == [crit |-> 0, warn |-> 1]
FourWarnings == [crit |-> 0, warn |-> 4]
Malicious == [crit |-> 1, warn |-> 0]

Contents == {Clean, OneWarning, FourWarnings, Malicious}

RECURSIVE SumCrit(_)
SumCrit(files) ==
    IF files = <<>> THEN 0 ELSE Head(files).content.crit + SumCrit(Tail(files))

RECURSIVE SumWarn(_)
SumWarn(files) ==
    IF files = <<>> THEN 0 ELSE Head(files).content.warn + SumWarn(Tail(files))

HighWarnings == 5
MediumWarnings == 3

\* thresholds under which exactly 5 warnings are still medium (not the
\* program's)
RiskLevelLenient(criticalCount, warningCount) ==
    IF criticalCount > 0 THEN "critical"
    ELSE IF warningCount > HighWarnings THEN "high"
    ELSE IF warningCount >= MediumWarnings THEN "medium"
    ELSE IF warningCount >= 1 THEN "low"
    ELSE "safe"

\* the thresholds of buildResult and of fetchAndScanSkill
RiskLevel(criticalCount, warningCount) ==
    IF criticalCount > 0 THEN "critical"
    ELSE IF warningCount >= HighWarnings THEN "high"
    ELSE IF warningCount >= MediumWarnings THEN "medium"
    ELSE IF warningCount >= 1 THEN "low"
    ELSE "safe"

ContentsOf(files) == [i \in 1..Len(files) |-> files[i].content]

\* computeHash / createHash("sha256") over the joined contents
Hash(contents) == [alg |-> "sha256", of |-> contents]

\* contentHash: "" of a result built without content
NoHash == [alg |-> "", of |-> <<>>]

\* the entries of a listing whose download succeeded, in listing order
Downloaded(listing, ok) ==
    LET RECURSIVE Pick(_)
        Pick(i) ==
            IF i > Len(listing) THEN <<>>
            ELSE (IF i \in ok THEN <<listing[i]>> ELSE <<>>) \o Pick(i + 1)
    IN Pick(1)

\* fetchAndScanSkill for a valid URL: a failed directory request gives the
\* fixed "medium" result; a failed file download is recorded in errors and
\* the file is not scanned
fetchAndScanSkill(dirOk, listing, ok) ==
    IF ~dirOk
    THEN [riskLevel |-> "medium", safe |-> FALSE, criticalCount |-> 0,
          warningCount |-> 1, filesScanned |-> 0, errors |-> 0,
          contentHash |-> NoHash, scanned |-> <<>>]
    ELSE LET files == Downloaded(listing, ok)
             c == SumCrit(files)
             w == SumWarn(files)
         IN [riskLevel |-> RiskLevel(c, w), safe |-> (c = 0 /\ w < MediumWarnings),
             criticalCount |-> c, warningCount |-> w,
             filesScanned |-> Len(files), errors |-> Len(listing) - Len(files),
             contentHash |-> Hash(ContentsOf(files)), scanned |-> files]

\* ------------------------------------------------------------------ remote

FileNames == <<Str_SkillMd, Str_runSh>>

\* what a directory request can return: the files in listing order
Listings ==
    {<<>>}
    \cup {<<[name |-> FileNames[1], content |-> c]>> : c \in Contents}
    \cup {<<[name |-> FileNames[1], content |-> c],
            [name |-> FileNames[2], content |-> d]>> :
                c \in {Clean, FourWarnings}, d \in {Clean, OneWarning}}

\* ------------------------------------------------------------------ disk

Names == {Str_n1, Str_n2}

Absent == [present |-> FALSE, files |-> <<>>]
Dir(files) == [present |-> TRUE, files |-> files]

EmptyDisk == [n \in Names |-> Absent]

SKILLS_DIR == <<<<"~">>, Str_claude, Str_skills>>

\* text.split("/")
Split(text) ==
    LET RECURSIVE From(_, _)
        From(k, seg) ==
            IF k > Len(text) THEN <<seg>>
            ELSE IF text[k] = "/" THEN <<seg>> \o From(k + 1, <<>>)
            ELSE From(k + 1, Append(seg, text[k]))
    IN From(1, <<>>)

\* resolve(join(dir, name)): empty and "." segments drop out, ".." drops the
\* segment before it
Resolve(dir, name) ==
    LET RECURSIVE Walk(_, _)
        Walk(path, segs) ==
            IF segs = <<>> THEN path
            ELSE LET seg == Head(segs)
                 IN Walk(IF seg \in {<<>>, <<".">>} THEN path
                         ELSE IF seg = <<".", ".">>
                         THEN SubSeq(path, 1, Len(path) - 1)
                         ELSE Append(path, seg),
                         Tail(segs))
    IN Walk(dir, Split(name))

\* a safeSkillPath without the prefix check (not the program's)
safeSkillPathUnchecked(name) == [ok |-> TRUE, path |-> Resolve(SKILLS_DIR, name)]

\* safeSkillPath: the resolved path, or "Path traversal detected" when it
\* does not start with the packages directory and a separator
safeSkillPath(name) ==
    LET resolved == Resolve(SKILLS_DIR, name)
    IN [ok |-> /\ Len(resolved) > Len(SKILLS_DIR)
               /\ SubSeq(resolved, 1, Len(SKILLS_DIR)) = SKILLS_DIR,
        path |-> resolved]

\* ------------------------------------------------------------------ registry

NoSkill == [present |-> FALSE, contentHash |-> Hash(<<>>)]

\* scanLocalSkill: the registry entry for a directory on disk, when readdir
\* enumerates the files in the order they were written (scanLocalSkillIn
\* below takes the enumeration order as an argument)
scanLocalSkill(d, name) ==
    [present |-> TRUE, contentHash |-> Hash(ContentsOf(d[name].files))]

\* the registry that initialize() builds from the directories on disk
RegistryOf(d) ==
    [n \in Names |-> IF d[n].present THEN scanLocalSkill(d, n) ELSE NoSkill]

\* ------------------------------------------------------------------ installSkill

RiskLevels == {"safe", "low", "medium", "high", "critical"}

\* a gate that force overrides at every level (not the program's)
RiskGateForceOverrides(riskLevel, force) ==
    IF force THEN "pass"
    ELSE IF riskLevel = "critical" THEN "blocked-critical"
    ELSE IF riskLevel = "high" \/ riskLevel = "medium" THEN "blocked-risk"
    ELSE "pass"

\* installSkill, step 4: critical is blocked for every force, medium and
\* high are blocked unless force
RiskGate(riskLevel, force) ==
    IF riskLevel = "critical" THEN "blocked-critical"
    ELSE IF (riskLevel = "high" \/ riskLevel = "medium") /\ ~force THEN "blocked-risk"
    ELSE "pass"

toUpperCase(s) ==
    CASE s = "safe" -> "SAFE"
      [] s = "low" -> "LOW"
      [] s = "medium" -> "MEDIUM"
      [] s = "high" -> "HIGH"
      [] s = "critical" -> "CRITICAL"
      [] OTHER -> s

toLowerCase(s) ==
    CASE s = "SAFE" -> "safe"
      [] s = "LOW" -> "low"
      [] s = "MEDIUM" -> "medium"
      [] s = "HIGH" -> "high"
      [] s = "CRITICAL" -> "critical"
      [] s = "BLOCKED:" -> "blocked:"
      [] s = "MODERATE" -> "moderate"
      [] s = "No" -> "no"
      [] OTHER -> s

\* buildRecommendation, as the words of the message
buildRecommendation(riskLevel) ==
    CASE riskLevel = "critical" -> <<"BLOCKED:", "critical", "threat(s)", "found">>
      [] riskLevel = "high" -> <<"HIGH", "RISK:", "suspicious", "patterns">>
      [] riskLevel = "medium" -> <<"MODERATE", "RISK:", "patterns", "flagged">>
      [] riskLevel = "low" -> <<"LOW", "RISK:", "minor", "concern(s)">>
      [] OTHER -> <<"No", "threats", "detected">>

\* scanSummary: `${riskLevel.toUpperCase()} -- ${recommendation}`, split at spaces
ScanSummary(riskLevel) ==
    <<toUpperCase(riskLevel), "--">> \o buildRecommendation(riskLevel)

HasSkillMd(files) == \E i \in 1..Len(files) : files[i].name = Str_SkillMd

NoScan == [riskLevel |-> "safe", safe |-> TRUE, criticalCount |-> 0, warningCount |-> 0,
           filesScanned |-> 0, errors |-> 0, contentHash |-> Hash(<<>>), scanned |-> <<>>]

NoResult == [success |-> FALSE, installPath |-> <<>>, filesCount |-> 0,
             contentHash |-> Hash(<<>>), scanSummary |-> <<>>, hasSkillMd |-> FALSE,
             warnings |-> {}]

InstallResult(skillName, files, scan, warnings) ==
    [success |-> TRUE, installPath |-> Append(SKILLS_DIR, skillName),
     filesCount |-> Len(files), contentHash |-> Hash(ContentsOf(files)),
     scanSummary |-> ScanSummary(scan.riskLevel), hasSkillMd |-> HasSkillMd(files),
     warnings |-> warnings \cup (IF HasSkillMd(files) THEN {} ELSE {"no-skill-md"})]

\* installSkill, step 2: name || inferSkillName(parsed)
SkillNameFor(url, name) ==
    IF name # <<>> THEN name ELSE inferSkillName(ParsedGitHubUrl(url))

IdleInst ==
    [pc |-> "idle", githubUrl |-> Url1, name |-> <<>>, force |-> FALSE,
     skillName |-> <<>>, exists |-> FALSE, scan |-> NoScan, files |-> <<>>,
     warnings |-> {}, failedAt |-> "", result |-> NoResult, diskBefore |-> EmptyDisk]

UrlInputs == {Url1, UrlHttp, UrlEvilHost, UrlNoTree}
NameInputs == {<<>>, Str_n2, Str_traversal}

\* installSkill is called: steps 1 and 2 run before the first await
InstallCall(url, name, force) ==
    /\ inst.pc = "idle"
    /\ LET started == [IdleInst EXCEPT !.githubUrl = url, !.name = name,
                                       !.force = force, !.diskBefore = disk]
       IN  IF ~validateGithubUrl(url)
           THEN inst' = [started EXCEPT !.pc = "failed", !.failedAt = "url"]
           ELSE IF ~validateSkillName(SkillNameFor(url, name))
           THEN inst' = [started EXCEPT !.pc = "failed", !.failedAt = "name",
                                        !.skillName = SkillNameFor(url, name)]
           ELSE IF ~safeSkillPath(SkillNameFor(url, name)).ok
           THEN inst' = [started EXCEPT !.pc = "failed", !.failedAt = "traversal",
                                        !.skillName = SkillNameFor(url, name)]
           ELSE inst' = [started EXCEPT !.pc = "stat",
                                        !.skillName = SkillNameFor(url, name)]
    /\ UNCHANGED <<disk, registry, lockFile, syncing, call>>

\* a step 3 that removes the existing directory at once when force is set
\* (not the program's: it removes it in step 6)
InstallStatRemoves ==
    /\ inst.pc = "stat"
    /\ LET exists == disk[inst.skillName].present
       IN  IF exists /\ ~inst.force
           THEN /\ inst' = [inst EXCEPT !.pc = "failed", !.failedAt = "exists",
                                        !.exists = exists]
                /\ UNCHANGED disk
           ELSE /\ inst' = [inst EXCEPT !.pc = "scan", !.exists = exists]
                /\ disk' = [disk EXCEPT ![inst.skillName] = Absent]
    /\ UNCHANGED <<registry, lockFile, syncing, call>>

\* step 3: stat(installPath); an existing directory needs force
InstallStat ==
    /\ inst.pc = "stat"
    /\ LET exists == disk[inst.skillName].present
       IN  IF exists /\ ~inst.force
           THEN inst' = [inst EXCEPT !.pc = "failed", !.failedAt = "exists",
                                     !.exists = exists]
           ELSE inst' = [inst EXCEPT !.pc = "scan", !.exists = exists]
    /\ UNCHANGED <<disk, registry, lockFile, syncing, call>>

\* step 4: fetchAndScanSkill returns and the risk gate is applied
InstallScan ==
    /\ inst.pc = "scan"
    /\ \E dirOk \in BOOLEAN, listing \in Listings :
       \E ok \in SUBSET (1..Len(listing)) :
          LET scan == fetchAndScanSkill(dirOk, listing, ok)
              gate == RiskGate(scan.riskLevel, inst.force)
          IN  inst' = IF gate # "pass"
                      THEN [inst EXCEPT !.pc = "failed", !.failedAt = gate, !.scan = scan]
                      ELSE [inst EXCEPT !.pc = "fetch", !.scan = scan,
                                        !.warnings = IF scan.riskLevel = "low"
                                                     THEN {"low-risk"} ELSE {}]
    /\ UNCHANGED <<disk, registry, lockFile, syncing, call>>

\* step 5: fetchSkillFiles lists the directory again and downloads the files;
\* a failed directory request throws, a failed file download skips the file
InstallFetch ==
    /\ inst.pc = "fetch"
    /\ \E dirOk \in BOOLEAN, listing \in Listings :
       \E ok \in SUBSET (1..Len(listing)) :
          inst' = IF ~dirOk
                  THEN [inst EXCEPT !.pc = "failed", !.failedAt = "fetch"]
                  ELSE [inst EXCEPT !.pc = "write", !.files = Downloaded(listing, ok)]
    /\ UNCHANGED <<disk, registry, lockFile, syncing, call>>

\* step 6: rm of an existing directory, mkdir, writeFile of every fetched file
InstallWrite ==
    /\ inst.pc = "write"
    /\ disk' = [disk EXCEPT ![inst.skillName] = Dir(inst.files)]
    /\ inst' = [inst EXCEPT !.pc = "done",
                            !.result = InstallResult(inst.skillName, inst.files,
                                                     inst.scan, inst.warnings)]
    /\ UNCHANGED <<registry, lockFile, syncing, call>>

\* the promise settles and the install tool answers: after a successful
\* install it rescans the skill into the registry
InstallReturn ==
    /\ inst.pc \in {"done", "failed"}
    /\ inst' = IdleInst
    /\ registry' = IF inst.pc = "done"
                   THEN [registry EXCEPT ![inst.skillName] = scanLocalSkill(disk, inst.skillName)]
                   ELSE registry
    /\ UNCHANGED <<disk, lockFile, syncing, call>>

\* ------------------------------------------------------------------ uninstallSkill

\* an uninstallSkill that succeeds when there is nothing to remove (not the
\* program's)
uninstallSkillIdempotent(d, name) ==
    IF ~validateSkillName(name) THEN [ok |-> FALSE, error |-> "invalid-name", disk |-> d]
    ELSE [ok |-> TRUE, error |-> "", disk |-> [d EXCEPT ![name] = Absent]]

uninstallSkill(d, name) ==
    IF ~validateSkillName(name) THEN [ok |-> FALSE, error |-> "invalid-name", disk |-> d]
    ELSE IF ~safeSkillPath(name).ok THEN [ok |-> FALSE, error |-> "traversal", disk |-> d]
    ELSE IF ~d[name].present THEN [ok |-> FALSE, error |-> "not-found", disk |-> d]
    ELSE [ok |-> TRUE, error |-> "", disk |-> [d EXCEPT ![name] = Absent]]

\* the uninstall tool, between install calls: uninstallSkill, then
\* skillManager.removeSkill
ToolUninstall(name) ==
    /\ inst.pc = "idle"
    /\ uninstallSkill(disk, name).ok
    /\ disk' = uninstallSkill(disk, name).disk
    /\ registry' = [registry EXCEPT ![name] = NoSkill]
    /\ UNCHANGED <<lockFile, syncing, call, inst>>

\* installSkill as one call, for a caller that awaits it: the scan draws
\* (sDir, sList, sOk) from the remote, the installer's own fetch draws
\* (fDir, fList, fOk)
installSkill(d, url, name, force, sDir, sList, sOk, fDir, fList, fOk) ==
    LET Fail(at) == [ok |-> FALSE, failedAt |-> at, disk |-> d, result |-> NoResult]
        skillName == SkillNameFor(url, name)
        scan == fetchAndScanSkill(sDir, sList, sOk)
        files == Downloaded(fList, fOk)
    IN  IF ~validateGithubUrl(url) THEN Fail("url")
        ELSE IF ~validateSkillName(skillName) THEN Fail("name")
        ELSE IF ~safeSkillPath(skillName).ok THEN Fail("traversal")
        ELSE IF d[skillName].present /\ ~force THEN Fail("exists")
        ELSE IF RiskGate(scan.riskLevel, force) # "pass"
        THEN Fail(RiskGate(scan.riskLevel, force))
        ELSE IF ~fDir THEN Fail("fetch")
        ELSE [ok |-> TRUE, failedAt |-> "",
              disk |-> [d EXCEPT ![skillName] = Dir(files)],
              result |-> InstallResult(skillName, files, scan,
                                       IF scan.riskLevel = "low" THEN {"low-risk"} ELSE {})]

\* ------------------------------------------------------------------ lock file

NoEntry ==
    [present |-> FALSE, githubUrl |-> Url1, installedHash |-> Hash(<<>>),
     upstreamHash |-> Hash(<<>>), subscriptionIds |-> <<>>, riskLevel |-> "",
     filesCount |-> 0, hasSkillMd |-> FALSE, upstreamUpdatedAt |-> ""]

\* emptyLock()
emptyLock == [skills |-> [n \in Names |-> NoEntry], lastSyncRun |-> "null", syncCount |-> 0]

\* Object.keys / Object.values of lock.skills
NameOrder == <<Str_n1, Str_n2>>

\* ------------------------------------------------------------------ constants.ts

RISK_LEVEL_ORDER(level) ==
    CASE level = "safe" -> 0
      [] level = "low" -> 1
      [] level = "medium" -> 2
      [] level = "high" -> 3
      [] level = "critical" -> 4
      [] OTHER -> -1   \* undefined

\* ------------------------------------------------------------------ sync config

Callers == {"tool", "timer"}

SubIds == <<"s1", "s2">>

Markers == {"t1", "t2"}

\* SkillResult.updatedAt is a number or a string: a string with the text m,
\* and the number that prints as m
StringValue(m) == [number |-> FALSE, text |-> m]
NumberValue(m) == [number |-> TRUE, text |-> m]

\* String(value): a string is itself, a number is printed
String(value) == value.text

Subscriptions(enabledIds) ==
    [i \in 1..Len(SubIds) |-> [id |-> SubIds[i], enabled |-> SubIds[i] \in enabledIds]]

\* what readSyncConfig can return
Configs ==
    {[enabled |-> e, subscriptions |-> Subscriptions(ids), maxRiskLevel |-> m,
      conflictPolicy |-> p, autoRemove |-> a] :
        e \in BOOLEAN, ids \in {{}, {"s1", "s2"}}, m \in {"safe", "low"},
        p \in {"skip", "overwrite", "unmanage"}, a \in BOOLEAN}

defaultConfig ==
    [enabled |-> TRUE, subscriptions |-> <<>>, maxRiskLevel |-> "low",
     conflictPolicy |-> "skip", autoRemove |-> FALSE]

\* config.subscriptions.filter((s) => s.enabled !== false)
activeSubscriptions(config) == SelectSeq(config.subscriptions, LAMBDA s : s.enabled)

\* the skills the search API can return for a subscription's query, each
\* with the updatedAt values it can carry
Catalog(subId) ==
    IF subId = "s1"
    THEN <<[githubUrl |-> Url1, updatedAt |-> {StringValue(m) : m \in Markers}]>>
    ELSE <<[githubUrl |-> Url1, updatedAt |-> {StringValue("t1")}],
           [githubUrl |-> Url2, updatedAt |-> {StringValue("t1")}],
           [githubUrl |-> Url1, updatedAt |-> {StringValue("t1")}]>>

\* the result lists searchSkills can return over the skills of a catalog
ResultLists(skills) ==
    LET RECURSIVE Lists(_)
        Lists(i) ==
            IF i > Len(skills) THEN {<<>>}
            ELSE LET rest == Lists(i + 1)
                 IN rest \cup {<<[githubUrl |-> skills[i].githubUrl, updatedAt |-> m]>> \o r :
                                 m \in skills[i].updatedAt, r \in rest}
    IN Lists(1)

\* the result lists searchSkills can return for a subscription
SearchResults(subId) == ResultLists(Catalog(subId))

\* ------------------------------------------------------------------ sync-engine.ts

\* inferNameFromUrl: the last "/"-separated segment of the URL
inferNameFromUrl(url) ==
    IF Len(url.segs) > 0 THEN url.segs[Len(url.segs)] ELSE url.hostname

IndexOfUrl(discovered, url) ==
    LET hits == {i \in 1..Len(discovered) : discovered[i].githubUrl = url}
    IN IF hits = {} THEN 0 ELSE CHOOSE i \in hits : \A j \in hits : i <= j

\* a membership test that never finds the id (not the program's)
IncludesNever(seq, x) == FALSE

Includes(seq, x) == \E i \in 1..Len(seq) : seq[i] = x

\* sync, phase 1: the skills of one subscription's result merged into discovered
RECURSIVE MergeSkills(_, _, _)
MergeSkills(discovered, subId, skills) ==
    IF skills = <<>> THEN discovered
    ELSE LET skill == Head(skills)
             at == IndexOfUrl(discovered, skill.githubUrl)
             merged ==
                 IF at # 0
                 THEN IF Includes(discovered[at].subIds, subId) THEN discovered
                      ELSE [discovered EXCEPT ![at].subIds = Append(@, subId)]
                 ELSE Append(discovered,
                             [githubUrl |-> skill.githubUrl, updatedAt |-> skill.updatedAt,
                              subIds |-> <<subId>>,
                              inferredName |-> inferNameFromUrl(skill.githubUrl)])
         IN MergeSkills(merged, subId, Tail(skills))

\* a lookup that takes the first lock entry whatever its URL (not the program's)
FindLockedAnyUrl(lock, url) ==
    LET hits == {i \in 1..Len(NameOrder) : lock.skills[NameOrder[i]].present}
    IN IF hits = {} THEN <<>>
       ELSE NameOrder[CHOOSE i \in hits : \A j \in hits : i <= j]

\* Object.values(lock.skills).find((s) => s.githubUrl === githubUrl): its name, or <<>>
FindLocked(lock, url) ==
    LET hits == {i \in 1..Len(NameOrder) :
                    /\ lock.skills[NameOrder[i]].present
                    /\ lock.skills[NameOrder[i]].githubUrl = url}
    IN IF hits = {} THEN <<>>
       ELSE NameOrder[CHOOSE i \in hits : \A j \in hits : i <= j]

EmptyDiff == [toInstall |-> <<>>, toUpdate |-> <<>>, toRemove |-> <<>>, conflicts |-> <<>>]

\* the instant a marker text denotes: "t1.0" is another spelling of t1
Instant(text) == IF text \in {"t1", "t1.0"} THEN 1 ELSE 2

\* a comparison of the markers as instants (not the program's)
MarkerChangedAsTime(updatedAt, upstreamUpdatedAt) ==
    Instant(updatedAt) # Instant(upstreamUpdatedAt)

\* updatedAt !== locked.upstreamUpdatedAt
MarkerChanged(updatedAt, upstreamUpdatedAt) == updatedAt # upstreamUpdatedAt

\* computeSyncDiff, the loop over the discovered skills
RECURSIVE DiffDiscovered(_, _, _, _, _)
DiffDiscovered(discovered, lock, config, reg, acc) ==
    IF discovered = <<>> THEN acc
    ELSE LET disc == Head(discovered)
             name == FindLocked(lock, disc.githubUrl)
             locked == lock.skills[name]
             updatedAt == String(disc.updatedAt)
             candidate(n) == [name |-> n, githubUrl |-> disc.githubUrl,
                              subIds |-> disc.subIds, updatedAt |-> updatedAt]
             conflict(reason) == [name |-> name, githubUrl |-> disc.githubUrl,
                                  reason |-> reason]
             next ==
                 IF name = <<>>
                 THEN [acc EXCEPT !.toInstall = Append(@, candidate(disc.inferredName))]
                 ELSE IF MarkerChanged(updatedAt, locked.upstreamUpdatedAt)
                 THEN IF reg[name].present /\ reg[name].contentHash # locked.installedHash
                      THEN IF config.conflictPolicy = "skip"
                           THEN [acc EXCEPT !.conflicts = Append(@, conflict("skipped"))]
                           ELSE IF config.conflictPolicy = "overwrite"
                           THEN [acc EXCEPT !.toUpdate = Append(@, candidate(name))]
                           ELSE [acc EXCEPT !.conflicts = Append(@, conflict("unmanaged"))]
                      ELSE [acc EXCEPT !.toUpdate = Append(@, candidate(name))]
                 ELSE acc
         IN DiffDiscovered(Tail(discovered), lock, config, reg, next)

\* removal candidates that do not depend on autoRemove (not the program's)
RemovalCandidatesAlways(discovered, lock, config) ==
    LET RECURSIVE Scan(_)
        Scan(i) ==
            IF i > Len(NameOrder) THEN <<>>
            ELSE LET n == NameOrder[i]
                     e == lock.skills[n]
                 IN (IF e.present /\ IndexOfUrl(discovered, e.githubUrl) = 0
                     THEN <<[name |-> n, githubUrl |-> e.githubUrl]>> ELSE <<>>)
                    \o Scan(i + 1)
    IN Scan(1)

\* computeSyncDiff, the removal candidates
RemovalCandidates(discovered, lock, config) ==
    LET RECURSIVE Scan(_)
        Scan(i) ==
            IF i > Len(NameOrder) THEN <<>>
            ELSE LET n == NameOrder[i]
                     e == lock.skills[n]
                 IN (IF e.present /\ IndexOfUrl(discovered, e.githubUrl) = 0
                     THEN <<[name |-> n, githubUrl |-> e.githubUrl]>> ELSE <<>>)
                    \o Scan(i + 1)
    IN IF config.autoRemove THEN Scan(1) ELSE <<>>

computeSyncDiff(discovered, lock, config, reg) ==
    [DiffDiscovered(discovered, lock, config, reg, EmptyDiff)
        EXCEPT !.toRemove = RemovalCandidates(discovered, lock, config)]

\* ------------------------------------------------------------------ SyncEngine.sync

MaxSyncCount == 2

\* a SyncAction; reason is the kind of its message
Action(type, skillName, githubUrl, reason, riskLevel) ==
    [type |-> type, skillName |-> skillName, githubUrl |-> githubUrl,
     reason |-> reason, riskLevel |-> riskLevel]

Count(actions, types) == Cardinality({i \in 1..Len(actions) : actions[i].type \in types})

\* the report of a run that reached the end of the try block
Report(actions, totalDiscovered, dryRun) ==
    [totalDiscovered |-> totalDiscovered, actions |-> actions,
     installed |-> Count(actions, {"install"}),
     updated |-> Count(actions, {"update"}),
     removed |-> Count(actions, {"remove"}),
     skipped |-> Count(actions, {"skip-conflict", "skip-risk", "unmanage"}),
     errors |-> Count(actions, {"error"}),
     dryRun |-> dryRun]

\* the report of the rejected call ("Sync already in progress") and of the
\* catch block ("Sync failed")
ErrorReport(reason, dryRun) ==
    [totalDiscovered |-> 0, actions |-> <<Action("error", <<>>, NoUrl, reason, "")>>,
     installed |-> 0, updated |-> 0, removed |-> 0, skipped |-> 0, errors |-> 1,
     dryRun |-> dryRun]

\* the report of a run skipped because the policy is disabled or no
\* subscription is enabled
SkippedReport(dryRun) ==
    [totalDiscovered |-> 0, actions |-> <<>>,
     installed |-> 0, updated |-> 0, removed |-> 0, skipped |-> 0, errors |-> 0,
     dryRun |-> dryRun]

NoReport == SkippedReport(FALSE)

IdleCall ==
    [pc |-> "idle", dryRun |-> FALSE, exit |-> "", config |-> defaultConfig,
     i |-> 0, discovered |-> <<>>, lock |-> emptyLock, diff |-> EmptyDiff, k |-> 0,
     actions |-> <<>>, report |-> NoReport]

\* a ceiling that is always the default (not the program's)
MaxRiskDefault(config) == RISK_LEVEL_ORDER(defaultConfig.maxRiskLevel)

\* const maxRisk = RISK_LEVEL_ORDER[config.maxRiskLevel] ?? 1
MaxRisk(config) ==
    IF RISK_LEVEL_ORDER(config.maxRiskLevel) = -1 THEN 1
    ELSE RISK_LEVEL_ORDER(config.maxRiskLevel)

\* result.scanSummary.split(" ")[0].toLowerCase()
RiskStr(result) == toLowerCase(Head(result.scanSummary))

\* RISK_LEVEL_ORDER[riskStr] ?? 0
RiskNum(riskStr) == IF RISK_LEVEL_ORDER(riskStr) = -1 THEN 0 ELSE RISK_LEVEL_ORDER(riskStr)

\* the post-hoc check of phases 4 and 5: riskNum > maxRisk
ExceedsMaxRisk(riskStr, config) == RiskNum(riskStr) > MaxRisk(config)

\* result.installPath.split("/").pop() || item.name
InstalledName(result, item) ==
    IF Len(result.installPath) > 0 /\ result.installPath[Len(result.installPath)] # <<>>
    THEN result.installPath[Len(result.installPath)]
    ELSE item.name

\* a phase choice that goes to the removals first when there are any (not
\* the program's)
PhaseFromRemovalsFirst(diff, phase) ==
    IF phase = "install" /\ diff.toRemove # <<>> THEN "remove"
    ELSE IF phase = "install" /\ diff.toInstall # <<>> THEN "install"
    ELSE IF phase \in {"install", "update"} /\ diff.toUpdate # <<>> THEN "update"
    ELSE IF phase \in {"install", "update", "remove"} /\ diff.toRemove # <<>> THEN "remove"
    ELSE "write"

\* the first phase from `phase` on that has a candidate, else the lock write
PhaseFrom(diff, phase) ==
    IF phase = "install" /\ diff.toInstall # <<>> THEN "install"
    ELSE IF phase \in {"install", "update"} /\ diff.toUpdate # <<>> THEN "update"
    ELSE IF phase \in {"install", "update", "remove"} /\ diff.toRemove # <<>> THEN "remove"
    ELSE "write"

\* the position after candidate k of a phase
Advance(c, list, phase, following) ==
    IF c.k < Len(list) THEN [pc |-> phase, k |-> c.k + 1]
    ELSE [pc |-> PhaseFrom(c.diff, following), k |-> 1]

\* a sync() without the single-flight check (not the program's)
SyncCallNoCheck(c, dryRun) ==
    /\ call[c].pc = "idle"
    /\ lockFile.syncCount < MaxSyncCount
    /\ syncing' = TRUE
    /\ call' = [call EXCEPT ![c] = [IdleCall EXCEPT !.pc = "config", !.dryRun = dryRun]]
    /\ UNCHANGED <<disk, registry, lockFile, inst>>

\* sync() is called: the single-flight check and the flag are set before
\* the first await
SyncCall(c, dryRun) ==
    /\ call[c].pc = "idle"
    /\ lockFile.syncCount < MaxSyncCount
    /\ IF syncing
       THEN /\ call' = [call EXCEPT ![c] = [IdleCall EXCEPT !.pc = "done", !.dryRun = dryRun,
                                              !.exit = "rejected",
                                              !.report = ErrorReport("Sync already in progress",
                                                                     dryRun)]]
            /\ UNCHANGED syncing
       ELSE /\ syncing' = TRUE
            /\ call' = [call EXCEPT ![c] = [IdleCall EXCEPT !.pc = "config", !.dryRun = dryRun]]
    /\ UNCHANGED <<disk, registry, lockFile, inst>>

\* a readSyncConfig step whose throw is caught without a finally block, so
\* the flag stays set (not the program's)
SyncReadConfigKeepsFlag(c) ==
    /\ call[c].pc = "config"
    /\ \/ \E config \in Configs :
            IF ~config.enabled \/ activeSubscriptions(config) = <<>>
            THEN /\ syncing' = FALSE
                 /\ call' = [call EXCEPT ![c].pc = "done", ![c].config = config,
                                         ![c].exit = IF ~config.enabled THEN "disabled"
                                                     ELSE "no-subscriptions",
                                         ![c].report = SkippedReport(call[c].dryRun)]
            ELSE /\ call' = [call EXCEPT ![c].pc = "query", ![c].config = config, ![c].i = 1]
                 /\ UNCHANGED syncing
       \/ /\ UNCHANGED syncing
          /\ call' = [call EXCEPT ![c].pc = "done", ![c].exit = "caught",
                                  ![c].report = ErrorReport("Sync failed", call[c].dryRun)]
    /\ UNCHANGED <<disk, registry, lockFile, inst>>

\* readSyncConfig returns, or throws into the catch block; a disabled
\* policy and an empty active list return at once
SyncReadConfig(c) ==
    /\ call[c].pc = "config"
    /\ \/ \E config \in Configs :
            IF ~config.enabled \/ activeSubscriptions(config) = <<>>
            THEN /\ syncing' = FALSE
                 /\ call' = [call EXCEPT ![c].pc = "done", ![c].config = config,
                                         ![c].exit = IF ~config.enabled THEN "disabled"
                                                     ELSE "no-subscriptions",
                                         ![c].report = SkippedReport(call[c].dryRun)]
            ELSE /\ call' = [call EXCEPT ![c].pc = "query", ![c].config = config, ![c].i = 1]
                 /\ UNCHANGED syncing
       \/ /\ syncing' = FALSE
          /\ call' = [call EXCEPT ![c].pc = "done", ![c].exit = "caught",
                                  ![c].report = ErrorReport("Sync failed", call[c].dryRun)]
    /\ UNCHANGED <<disk, registry, lockFile, inst>>

\* a phase 1 without the inner try: a failed query ends the sync in the
\* outer catch block (not the program's)
SyncQueryAborts(c) ==
    /\ call[c].pc = "query"
    /\ LET active == activeSubscriptions(call[c].config)
           sub == active[call[c].i]
           last == call[c].i = Len(active)
       IN \/ /\ \E skills \in SearchResults(sub.id) :
                  call' = [call EXCEPT
                             ![c].discovered = MergeSkills(@, sub.id, skills),
                             ![c].i = @ + 1,
                             ![c].pc = IF last THEN "diff" ELSE "query"]
             /\ UNCHANGED syncing
          \/ /\ syncing' = FALSE
             /\ call' = [call EXCEPT ![c].pc = "done", ![c].exit = "caught",
                             ![c].report = ErrorReport("Sync failed", call[c].dryRun)]
    /\ UNCHANGED <<disk, registry, lockFile, inst>>

\* phase 1, one subscription, over the result lists the search API can
\* return: searchSkills returns and its skills are merged, or it throws and
\* one error action is recorded
SyncQueryOf(c, results) ==
    /\ call[c].pc = "query"
    /\ LET active == activeSubscriptions(call[c].config)
           sub == active[call[c].i]
           last == call[c].i = Len(active)
       IN \/ \E skills \in results[sub.id] :
               call' = [call EXCEPT
                          ![c].discovered = MergeSkills(@, sub.id, skills),
                          ![c].i = @ + 1,
                          ![c].pc = IF last THEN "diff" ELSE "query"]
          \/ call' = [call EXCEPT
                          ![c].actions = Append(@, Action("error", <<>>, NoUrl, "Subscription failed", "")),
                          ![c].i = @ + 1,
                          ![c].pc = IF last THEN "diff" ELSE "query"]
    /\ UNCHANGED <<disk, registry, lockFile, syncing, inst>>

SyncQuery(c) ==
    SyncQueryOf(c, [id \in {SubIds[i] : i \in 1..Len(SubIds)} |-> SearchResults(id)])

\* phase 3: the actions of the conflicts, and the lock after them
ConflictActions(conflicts, config) ==
    [i \in 1..Len(conflicts) |->
        Action(IF config.conflictPolicy = "unmanage" THEN "unmanage" ELSE "skip-conflict",
               conflicts[i].name, conflicts[i].githubUrl, conflicts[i].reason, "")]

\* a conflict phase that never drops a lock entry (not the program's)
ConflictLockKeeps(lock, conflicts, config, dryRun) == lock

ConflictLock(lock, conflicts, config, dryRun) ==
    IF config.conflictPolicy = "unmanage" /\ ~dryRun
    THEN [lock EXCEPT !.skills =
            [n \in Names |-> IF \E i \in 1..Len(conflicts) : conflicts[i].name = n
                             THEN NoEntry ELSE lock.skills[n]]]
    ELSE lock

\* phases 4 to 6 of a dry run: one action per candidate
DryRunActions(diff) ==
    [i \in 1..Len(diff.toInstall) |->
        Action("install", diff.toInstall[i].name, diff.toInstall[i].githubUrl,
               "New skill from subscription", "")]
    \o [i \in 1..Len(diff.toUpdate) |->
        Action("update", diff.toUpdate[i].name, diff.toUpdate[i].githubUrl,
               "Upstream changed", "")]
    \o [i \in 1..Len(diff.toRemove) |->
        Action("remove", diff.toRemove[i].name, diff.toRemove[i].githubUrl,
               "No longer matched", "")]

\* a sync whose phases 4 to 7 do not look at dryRun (not the program's)
SyncDiffRunsDry(c) ==
    /\ call[c].pc = "diff"
    /\ LET me == call[c]
           diff == computeSyncDiff(me.discovered, lockFile, me.config, registry)
           lock == ConflictLock(lockFile, diff.conflicts, me.config, me.dryRun)
           actions == me.actions \o ConflictActions(diff.conflicts, me.config)
       IN call' = [call EXCEPT
                     ![c].pc = PhaseFrom(diff, "install"), ![c].k = 1,
                     ![c].diff = diff, ![c].lock = lock, ![c].actions = actions]
    /\ UNCHANGED <<disk, registry, lockFile, syncing, inst>>

\* readSyncLock returns (or throws into the catch block); phases 2 and 3
\* run without an await, and so does the rest of a dry run
SyncDiff(c) ==
    /\ call[c].pc = "diff"
    /\ \/ LET me == call[c]
              diff == computeSyncDiff(me.discovered, lockFile, me.config, registry)
              lock == ConflictLock(lockFile, diff.conflicts, me.config, me.dryRun)
              actions == me.actions \o ConflictActions(diff.conflicts, me.config)
          IN IF me.dryRun
             THEN /\ syncing' = FALSE
                  /\ call' = [call EXCEPT
                        ![c].pc = "done", ![c].exit = "completed",
                        ![c].diff = diff, ![c].lock = lock,
                        ![c].actions = actions \o DryRunActions(diff),
                        ![c].report = Report(actions \o DryRunActions(diff),
                                             Len(me.discovered), TRUE)]
             ELSE /\ call' = [call EXCEPT
                        ![c].pc = PhaseFrom(diff, "install"), ![c].k = 1,
                        ![c].diff = diff, ![c].lock = lock, ![c].actions = actions]
                  /\ UNCHANGED syncing
       \/ /\ syncing' = FALSE
          /\ call' = [call EXCEPT ![c].pc = "done", ![c].exit = "caught",
                                  ![c].report = ErrorReport("Sync failed", call[c].dryRun)]
    /\ UNCHANGED <<disk, registry, lockFile, inst>>

\* what GitHub can answer during one installSkill call of a sync: the
\* directory request and downloads of the scan, then those of the installer
SyncListings ==
    {<<[name |-> FileNames[1], content |-> c]>> : c \in {Clean, OneWarning, Malicious}}

RemoteDraws ==
    {[sDir |-> TRUE, sList |-> l, sOk |-> 1..Len(l), fDir |-> f, fList |-> m,
      fOk |-> 1..Len(m)] : l \in SyncListings, m \in SyncListings, f \in BOOLEAN}

LockedSkill(item, result, riskStr) ==
    [present |-> TRUE, githubUrl |-> item.githubUrl,
     installedHash |-> result.contentHash, upstreamHash |-> result.contentHash,
     subscriptionIds |-> item.subIds, riskLevel |-> riskStr,
     filesCount |-> result.filesCount, hasSkillMd |-> result.hasSkillMd,
     upstreamUpdatedAt |-> item.updatedAt]

\* installSkill called with force in every phase (not the program's)
PhaseForceAlways(phase) == TRUE

\* the force argument of installSkill: false in phase 4, true in phase 5
PhaseForce(phase) == phase = "update"

\* phase 4, one candidate: installSkill(url, name, false), the risk check
\* with its undo, the registry rescan and the lock entry
SyncInstall(c) ==
    /\ call[c].pc = "install"
    /\ \E r \in RemoteDraws :
         LET me == call[c]
             item == me.diff.toInstall[me.k]
             res == installSkill(disk, item.githubUrl, item.name, PhaseForce("install"),
                                 r.sDir, r.sList, r.sOk, r.fDir, r.fList, r.fOk)
             skillName == InstalledName(res.result, item)
             riskStr == RiskStr(res.result)
             to == Advance(me, me.diff.toInstall, "install", "update")
         IN IF ~res.ok
            THEN /\ call' = [call EXCEPT ![c].pc = to.pc, ![c].k = to.k,
                        ![c].actions = Append(@, Action("error", item.name, item.githubUrl,
                                                        "Install failed", ""))]
                 /\ UNCHANGED <<disk, registry>>
            ELSE IF ExceedsMaxRisk(riskStr, me.config)
            THEN /\ disk' = uninstallSkill(res.disk, skillName).disk
                 /\ call' = [call EXCEPT ![c].pc = to.pc, ![c].k = to.k,
                        ![c].actions = Append(@, Action("skip-risk", skillName, item.githubUrl,
                                                        "Risk level exceeds max", riskStr))]
                 /\ UNCHANGED registry
            ELSE /\ disk' = res.disk
                 /\ registry' = [registry EXCEPT ![skillName] = scanLocalSkill(res.disk, skillName)]
                 /\ call' = [call EXCEPT ![c].pc = to.pc, ![c].k = to.k,
                        ![c].lock.skills[skillName] = LockedSkill(item, res.result, riskStr),
                        ![c].actions = Append(@, Action("install", skillName, item.githubUrl,
                                                        "Installed", riskStr))]
    /\ UNCHANGED <<lockFile, syncing, inst>>

\* lock.skills[skillName] updated in place, when it exists
UpdatedSkill(entry, item, result, riskStr) ==
    IF entry.present
    THEN [entry EXCEPT !.installedHash = result.contentHash,
                       !.upstreamHash = result.contentHash,
                       !.subscriptionIds = item.subIds, !.riskLevel = riskStr,
                       !.filesCount = result.filesCount,
                       !.hasSkillMd = result.hasSkillMd,
                       !.upstreamUpdatedAt = item.updatedAt]
    ELSE entry

\* phase 5, one candidate: installSkill(url, name, true), the risk check,
\* the registry rescan and the lock entry
SyncUpdate(c) ==
    /\ call[c].pc = "update"
    /\ \E r \in RemoteDraws :
         LET me == call[c]
             item == me.diff.toUpdate[me.k]
             res == installSkill(disk, item.githubUrl, item.name, PhaseForce("update"),
                                 r.sDir, r.sList, r.sOk, r.fDir, r.fList, r.fOk)
             skillName == InstalledName(res.result, item)
             riskStr == RiskStr(res.result)
             to == Advance(me, me.diff.toUpdate, "update", "remove")
         IN IF ~res.ok
            THEN /\ call' = [call EXCEPT ![c].pc = to.pc, ![c].k = to.k,
                        ![c].actions = Append(@, Action("error", item.name, item.githubUrl,
                                                        "Update failed", ""))]
                 /\ UNCHANGED <<disk, registry>>
            ELSE IF ExceedsMaxRisk(riskStr, me.config)
            THEN /\ disk' = res.disk
                 /\ call' = [call EXCEPT ![c].pc = to.pc, ![c].k = to.k,
                        ![c].actions = Append(@, Action("skip-risk", skillName, item.githubUrl,
                                                        "Updated version risk exceeds max",
                                                        riskStr))]
                 /\ UNCHANGED registry
            ELSE /\ disk' = res.disk
                 /\ registry' = [registry EXCEPT ![skillName] = scanLocalSkill(res.disk, skillName)]
                 /\ call' = [call EXCEPT ![c].pc = to.pc, ![c].k = to.k,
                        ![c].lock.skills[skillName] =
                            UpdatedSkill(@, item, res.result, riskStr),
                        ![c].actions = Append(@, Action("update", skillName, item.githubUrl,
                                                        "Updated", riskStr))]
    /\ UNCHANGED <<lockFile, syncing, inst>>

\* phase 6, one candidate: uninstallSkill, removeSkill and the lock entry
SyncRemove(c) ==
    /\ call[c].pc = "remove"
    /\ LET me == call[c]
           item == me.diff.toRemove[me.k]
           res == uninstallSkill(disk, item.name)
           to == Advance(me, me.diff.toRemove, "remove", "write")
       IN IF res.ok
          THEN /\ disk' = res.disk
               /\ registry' = [registry EXCEPT ![item.name] = NoSkill]
               /\ call' = [call EXCEPT ![c].pc = to.pc, ![c].k = to.k,
                      ![c].lock.skills[item.name] = NoEntry,
                      ![c].actions = Append(@, Action("remove", item.name, item.githubUrl,
                                                      "Removed", ""))]
          ELSE /\ call' = [call EXCEPT ![c].pc = to.pc, ![c].k = to.k,
                      ![c].actions = Append(@, Action("error", item.name, item.githubUrl,
                                                      "Remove failed", ""))]
               /\ UNCHANGED <<disk, registry>>
    /\ UNCHANGED <<lockFile, syncing, inst>>

\* a phase 7 that writes the lock without counting the run (not the program's)
SyncWriteLockUncounted(c) ==
    /\ call[c].pc = "write"
    /\ lockFile' = [call[c].lock EXCEPT !.lastSyncRun = "set"]
    /\ syncing' = FALSE
    /\ call' = [call EXCEPT ![c].pc = "done", ![c].exit = "completed",
                            ![c].report = Report(call[c].actions,
                                                 Len(call[c].discovered), FALSE)]
    /\ UNCHANGED <<disk, registry, inst>>

\* phase 7 and the return: the lock is written, the report built and the
\* flag released in the finally block
SyncWriteLock(c) ==
    /\ call[c].pc = "write"
    /\ lockFile' = [call[c].lock EXCEPT !.lastSyncRun = "set", !.syncCount = @ + 1]
    /\ syncing' = FALSE
    /\ call' = [call EXCEPT ![c].pc = "done", ![c].exit = "completed",
                            ![c].report = Report(call[c].actions,
                                                 Len(call[c].discovered), FALSE)]
    /\ UNCHANGED <<disk, registry, inst>>

\* the caller takes the report
SyncReturn(c) ==
    /\ call[c].pc = "done"
    /\ call' = [call EXCEPT ![c] = IdleCall]
    /\ UNCHANGED <<disk, registry, lockFile, syncing, inst>>

\* ------------------------------------------------------------------ specifications

\* no syncRegistry call is running
IdleResync ==
    [pc |-> "idle", onDisk |-> <<>>, inRegistry |-> {}, i |-> 0,
     added |-> <<>>, removed |-> <<>>, modified |-> <<>>, unchanged |-> <<>>]

\* no initialize call has been made
IdleInit == [pc |-> "idle", names |-> <<>>, i |-> 0, failed |-> {}]

\* new SkillManager(paths)
FreshMgr ==
    [initialized |-> FALSE, watcher |-> "null", watching |-> FALSE,
     debounceTimer |-> FALSE, init |-> IdleInit, resync |-> IdleResync]

\* SkillManager after initialize(): the watch is on, nothing is pending
ReadyMgr ==
    [FreshMgr EXCEPT !.initialized = TRUE, !.watcher = "open", !.watching = TRUE,
                     !.init = [IdleInit EXCEPT !.pc = "done"]]

\* none of the calls that are followed on their own is made
NoDirect == [fn |-> "none"]
NoFetchRun == [pc |-> "none"]
NoLockIo == [pc |-> "none"]
NoWatch == [pc |-> "none"]
NoDiscovery == [pc |-> "none"]
NoPeriodic == [pc |-> "none"]
OthersIdle ==
    /\ direct = NoDirect /\ fetchRun = NoFetchRun /\ lockIo = NoLockIo /\ watch = NoWatch
    /\ discovery = NoDiscovery /\ periodic = NoPeriodic

\* no direct call of computeSyncDiff
NoDiffRun ==
    [pc |-> "none", discovered |-> <<>>, lock |-> emptyLock, config |-> defaultConfig,
     diff |-> EmptyDiff]

\* a fresh process over an empty packages directory and no lock file
InitInstall ==
    /\ disk = EmptyDisk
    /\ registry = RegistryOf(EmptyDisk)
    /\ lockFile = emptyLock
    /\ syncing = FALSE
    /\ call = [c \in Callers |-> IdleCall]
    /\ inst = IdleInst
    /\ mgr = ReadyMgr
    /\ diffRun = NoDiffRun
    /\ OthersIdle

\* the install and uninstall tools
NextInstall ==
    \/ \E url \in UrlInputs, name \in NameInputs, force \in BOOLEAN :
          InstallCall(url, name, force) /\ UNCHANGED <<mgr, diffRun, others>>
    \/ InstallStat /\ UNCHANGED <<mgr, diffRun, others>>
    \/ InstallScan /\ UNCHANGED <<mgr, diffRun, others>>
    \/ InstallFetch /\ UNCHANGED <<mgr, diffRun, others>>
    \/ InstallWrite /\ UNCHANGED <<mgr, diffRun, others>>
    \/ InstallReturn /\ UNCHANGED <<mgr, diffRun, others>>
    \/ \E n \in Names : ToolUninstall(n) /\ UNCHANGED <<mgr, diffRun, others>>

SpecInstall == InitInstall /\ [][NextInstall]_vars

\* the lock entry and the directory an earlier sync left for a skill it
\* installed from url, found by subscription subId with marker updatedAt
SyncedEntry(url, subId, updatedAt, content) ==
    LET files == <<[name |-> FileNames[1], content |-> content]>>
        item == [name |-> inferNameFromUrl(url), githubUrl |-> url,
                 subIds |-> <<subId>>, updatedAt |-> updatedAt]
        scan == fetchAndScanSkill(TRUE, files, {1})
        result == InstallResult(item.name, files, scan, {})
    IN LockedSkill(item, result, RiskStr(result))

SyncedDir(content) == Dir(<<[name |-> FileNames[1], content |-> content]>>)

\* the lock file after an earlier sync
SyncedLock(skills) == [skills |-> skills, lastSyncRun |-> "set", syncCount |-> 1]

\* what earlier runs of the program and the user left in the packages
\* directory and the lock file: nothing managed; n1 managed; n1 managed and
\* edited by the user; n1 managed and its directory deleted by the user; n1
\* and n2 managed; n1 installed by the install tool and not managed
Persisted ==
    LET e1 == SyncedEntry(Url1, "s1", "t1", Clean)
        e2 == SyncedEntry(Url2, "s2", "t1", Clean)
        lock1 == SyncedLock([emptyLock.skills EXCEPT ![Str_n1] = e1])
        lock2 == SyncedLock([emptyLock.skills EXCEPT ![Str_n1] = e1, ![Str_n2] = e2])
    IN {[disk |-> EmptyDisk, lock |-> SyncedLock(emptyLock.skills)],
        [disk |-> [EmptyDisk EXCEPT ![Str_n1] = SyncedDir(Clean)], lock |-> lock1],
        [disk |-> [EmptyDisk EXCEPT ![Str_n1] = SyncedDir(OneWarning)], lock |-> lock1],
        [disk |-> EmptyDisk, lock |-> lock1],
        [disk |-> [EmptyDisk EXCEPT ![Str_n1] = SyncedDir(Clean),
                                    ![Str_n2] = SyncedDir(Clean)], lock |-> lock2],
        [disk |-> [EmptyDisk EXCEPT ![Str_n1] = SyncedDir(Clean)],
         lock |-> SyncedLock(emptyLock.skills)]}

\* a process starts over persisted storage: initialize() has scanned the
\* directories into the registry, no sync is running
InitSync ==
    /\ \E p \in Persisted : disk = p.disk /\ lockFile = p.lock
    /\ registry = RegistryOf(disk)
    /\ syncing = FALSE
    /\ call = [c \in Callers |-> IdleCall]
    /\ inst = IdleInst
    /\ mgr = ReadyMgr
    /\ diffRun = NoDiffRun
    /\ OthersIdle

\* a sync() promise has settled and its caller has not resumed yet
Settled == \E c \in Callers : call[c].pc = "done"

\* the sync tool (dryRun or not) and the periodic timer (never dryRun) call
\* sync(); the continuation of a settled promise is a microtask, so it runs
\* before the next timer or I/O callback
NextSync ==
    \/ ~Settled /\ \E c \in Callers : SyncCall(c, FALSE) /\ UNCHANGED <<mgr, diffRun, others>>
    \/ ~Settled /\ SyncCall("tool", TRUE) /\ UNCHANGED <<mgr, diffRun, others>>
    \/ ~Settled /\ \E c \in Callers : SyncReadConfig(c) /\ UNCHANGED <<mgr, diffRun, others>>
    \/ ~Settled /\ \E c \in Callers : SyncQuery(c) /\ UNCHANGED <<mgr, diffRun, others>>
    \/ ~Settled /\ \E c \in Callers : SyncDiff(c) /\ UNCHANGED <<mgr, diffRun, others>>
    \/ ~Settled /\ \E c \in Callers : SyncInstall(c) /\ UNCHANGED <<mgr, diffRun, others>>
    \/ ~Settled /\ \E c \in Callers : SyncUpdate(c) /\ UNCHANGED <<mgr, diffRun, others>>
    \/ ~Settled /\ \E c \in Callers : SyncRemove(c) /\ UNCHANGED <<mgr, diffRun, others>>
    \/ ~Settled /\ \E c \in Callers : SyncWriteLock(c) /\ UNCHANGED <<mgr, diffRun, others>>
    \/ \E c \in Callers : SyncReturn(c) /\ UNCHANGED <<mgr, diffRun, others>>

SpecSync == InitSync /\ [][NextSync]_vars

\* ------------------------------------------------------------------ two syncs over namesakes

\* a second repository with a skill directory named n1
UrlNamesake == [Url1 EXCEPT !.segs[1] = Str_r]

\* s1 finds n1 of the first repository, s2 the n1 of the second
NamesakeCatalog(subId) ==
    IF subId = "s1"
    THEN <<[githubUrl |-> Url1, updatedAt |-> {StringValue(m) : m \in Markers}]>>
    ELSE <<[githubUrl |-> UrlNamesake, updatedAt |-> {StringValue("t1")}]>>

\* the result lists of each subscription
NamesakeResults ==
    [id \in {SubIds[i] : i \in 1..Len(SubIds)} |-> ResultLists(NamesakeCatalog(id))]

\* phase 1 over these results
NamesakeQuery(c) == SyncQueryOf(c, NamesakeResults)

\* the policy stays as the user wrote it: enabled, both subscriptions
\* active, the default ceiling, conflicts skipped, autoRemove on or off
NamesakeConfigs ==
    {config \in Configs :
        /\ config.enabled
        /\ Len(activeSubscriptions(config)) = Len(SubIds)
        /\ config.maxRiskLevel = "low"
        /\ config.conflictPolicy = "skip"}

\* storage before the first sync: nothing managed; n1 managed; n1 managed
\* and its directory deleted by the user
NamesakePersisted ==
    LET e1 == SyncedEntry(Url1, "s1", "t1", Clean)
        lock1 == [emptyLock EXCEPT !.skills[Str_n1] = e1, !.lastSyncRun = "set"]
    IN {[disk |-> EmptyDisk, lock |-> emptyLock],
        [disk |-> [EmptyDisk EXCEPT ![Str_n1] = SyncedDir(Clean)], lock |-> lock1],
        [disk |-> EmptyDisk, lock |-> lock1]}

InitNamesakes ==
    /\ \E p \in NamesakePersisted : disk = p.disk /\ lockFile = p.lock
    /\ registry = RegistryOf(disk)
    /\ syncing = FALSE
    /\ call = [c \in Callers |-> IdleCall]
    /\ inst = IdleInst
    /\ mgr = ReadyMgr
    /\ diffRun = NoDiffRun
    /\ OthersIdle

\* readSyncConfig over the unchanged policy file
NamesakeReadConfig(c) ==
    /\ SyncReadConfig(c)
    /\ call'[c].exit = "caught" \/ call'[c].config \in NamesakeConfigs
    /\ (c = "timer" /\ call'[c].exit # "caught") => call'[c].config = call["tool"].config

\* the sync tool runs one sync; its report stays with the tool call, and
\* the periodic timer then runs the next sync
NextNamesakes ==
    \/ call["timer"].pc = "idle" /\ SyncCall("tool", FALSE) /\ UNCHANGED <<mgr, diffRun, others>>
    \/ call["tool"].pc = "done" /\ SyncCall("timer", FALSE) /\ UNCHANGED <<mgr, diffRun, others>>
    \/ \E c \in Callers : NamesakeReadConfig(c) /\ UNCHANGED <<mgr, diffRun, others>>
    \/ \E c \in Callers : NamesakeQuery(c) /\ UNCHANGED <<mgr, diffRun, others>>
    \/ \E c \in Callers : SyncDiff(c) /\ UNCHANGED <<mgr, diffRun, others>>
    \/ \E c \in Callers : SyncInstall(c) /\ UNCHANGED <<mgr, diffRun, others>>
    \/ \E c \in Callers : SyncUpdate(c) /\ UNCHANGED <<mgr, diffRun, others>>
    \/ \E c \in Callers : SyncRemove(c) /\ UNCHANGED <<mgr, diffRun, others>>
    \/ \E c \in Callers : SyncWriteLock(c) /\ UNCHANGED <<mgr, diffRun, others>>

SpecNamesakes == InitNamesakes /\ [][NextNamesakes]_vars

\* ------------------------------------------------------------------ SkillManager

EmptyRegistry == [n \in Names |-> NoSkill]

\* discoverSkills: the valid directory names of the packages directory, or
\* none when readdir fails
discoverSkills(d, readable) ==
    IF readable
    THEN SelectSeq(NameOrder, LAMBDA n : d[n].present /\ validateSkillName(n))
    ELSE <<>>

\* whether scanLocalSkill(name) can succeed: not without the directory, and
\* stat or readdir may fail on a directory that is there
ScanOutcomes(d, name) == IF d[name].present THEN BOOLEAN ELSE {FALSE}

\* startWatching: fs.watch gives a handle, or throws and is ignored
startWatching(m, watched) ==
    IF watched THEN [m EXCEPT !.watcher = "open", !.watching = TRUE] ELSE m

\* stopWatching: the debounce timer is cleared and the handle closed
stopWatching(m) ==
    [m EXCEPT !.debounceTimer = FALSE, !.watcher = "null",
              !.watching = IF m.watcher = "open" THEN FALSE ELSE @]

\* the watch callback: a change in the packages directory (re)starts the
\* debounce timer while a handle is open
Notified(m) == IF m.watching THEN [m EXCEPT !.debounceTimer = TRUE] ELSE m

\* an initialize that marks the manager initialized only when the watch
\* could be started (not the program's)
InitializeEndWatched(m, watched) ==
    [startWatching(m, watched) EXCEPT !.initialized = watched, !.init.pc = "done"]

\* initialize, after its last await: the watch is started and initialized set
InitializeEnd(m, watched) ==
    [startWatching(m, watched) EXCEPT !.initialized = TRUE, !.init.pc = "done"]

\* initialize() is called on a manager that is not initialized
InitializeCall ==
    /\ mgr.init.pc \in {"idle", "done"}
    /\ ~mgr.initialized
    /\ mgr' = [mgr EXCEPT !.init = [IdleInit EXCEPT !.pc = "discover"]]
    /\ UNCHANGED <<disk, registry, lockFile, syncing, call, inst, diffRun, others>>

\* initialize: discoverSkills returns
InitializeDiscover ==
    /\ mgr.init.pc = "discover"
    /\ \E readable \in BOOLEAN, watched \in BOOLEAN :
          LET names == discoverSkills(disk, readable)
              found == [mgr EXCEPT !.init.names = names, !.init.i = 1, !.init.pc = "scan"]
          IN mgr' = IF names = <<>> THEN InitializeEnd(found, watched) ELSE found
    /\ UNCHANGED <<disk, registry, lockFile, syncing, call, inst, diffRun, others>>

\* initialize: one scanLocalSkill returns or throws
InitializeScan ==
    /\ mgr.init.pc = "scan"
    /\ LET name == mgr.init.names[mgr.init.i]
           last == mgr.init.i = Len(mgr.init.names)
       IN \E scanned \in ScanOutcomes(disk, name), watched \in BOOLEAN :
             LET m == [mgr EXCEPT !.init.i = @ + 1,
                                  !.init.failed = IF scanned THEN @ ELSE @ \cup {name}]
             IN /\ registry' = IF scanned
                               THEN [registry EXCEPT ![name] = scanLocalSkill(disk, name)]
                               ELSE registry
                /\ mgr' = IF last THEN InitializeEnd(m, watched) ELSE m
    /\ UNCHANGED <<disk, lockFile, syncing, call, inst, diffRun, others>>

\* a shutdown that leaves the watch and its timer alone (not the program's)
ShutdownKeepsWatch ==
    /\ registry' = EmptyRegistry
    /\ mgr' = [mgr EXCEPT !.initialized = FALSE]
    /\ UNCHANGED <<disk, lockFile, syncing, call, inst, diffRun, others>>

\* shutdown()
Shutdown ==
    /\ registry' = EmptyRegistry
    /\ mgr' = [stopWatching(mgr) EXCEPT !.initialized = FALSE]
    /\ UNCHANGED <<disk, lockFile, syncing, call, inst, diffRun, others>>

\* the directories a user can leave under a name
UserDirs(name) ==
    IF name = Str_n1 THEN {Absent, SyncedDir(Clean), SyncedDir(OneWarning)}
    ELSE {Absent, SyncedDir(Clean)}

\* the user creates, edits or deletes a package directory
DiskEdit(name, dir) ==
    /\ disk[name] # dir
    /\ disk' = [disk EXCEPT ![name] = dir]
    /\ mgr' = Notified(mgr)
    /\ UNCHANGED <<registry, lockFile, syncing, call, inst, diffRun, others>>

\* the debounce timer fires: syncRegistry() is called
DebounceFire ==
    /\ mgr.debounceTimer
    /\ mgr.resync.pc = "idle"
    /\ mgr' = [mgr EXCEPT !.debounceTimer = FALSE,
                          !.resync = [IdleResync EXCEPT !.pc = "discover"]]
    /\ UNCHANGED <<disk, registry, lockFile, syncing, call, inst, diffRun, others>>

\* the list tool with refresh: syncRegistry() is called
ToolRefresh ==
    /\ mgr.resync.pc = "idle"
    /\ mgr' = [mgr EXCEPT !.resync = [IdleResync EXCEPT !.pc = "discover"]]
    /\ UNCHANGED <<disk, registry, lockFile, syncing, call, inst, diffRun, others>>

\* a syncRegistry that lists the stale names and keeps their entries (not
\* the program's)
ResyncDiscoverKeepsStale ==
    /\ mgr.resync.pc = "discover"
    /\ \E readable \in BOOLEAN :
          LET onDisk == discoverSkills(disk, readable)
              inRegistry == {n \in Names : registry[n].present}
              removed == SelectSeq(NameOrder,
                                   LAMBDA n : n \in inRegistry /\ ~Includes(onDisk, n))
          IN mgr' = [mgr EXCEPT
                       !.resync.onDisk = onDisk, !.resync.inRegistry = inRegistry,
                       !.resync.removed = removed, !.resync.i = 1,
                       !.resync.pc = IF onDisk = <<>> THEN "done" ELSE "scan"]
    /\ UNCHANGED <<disk, registry, lockFile, syncing, call, inst, diffRun, others>>

\* syncRegistry: discoverSkills returns, the registry keys are taken and
\* the names that are only in the registry are dropped
ResyncDiscover ==
    /\ mgr.resync.pc = "discover"
    /\ \E readable \in BOOLEAN :
          LET onDisk == discoverSkills(disk, readable)
              inRegistry == {n \in Names : registry[n].present}
              removed == SelectSeq(NameOrder,
                                   LAMBDA n : n \in inRegistry /\ ~Includes(onDisk, n))
          IN /\ registry' = [n \in Names |->
                               IF Includes(removed, n) THEN NoSkill ELSE registry[n]]
             /\ mgr' = [mgr EXCEPT
                          !.resync.onDisk = onDisk, !.resync.inRegistry = inRegistry,
                          !.resync.removed = removed, !.resync.i = 1,
                          !.resync.pc = IF onDisk = <<>> THEN "done" ELSE "scan"]
    /\ UNCHANGED <<disk, lockFile, syncing, call, inst, diffRun, others>>

\* syncRegistry: one name on disk is scanned and classified
ResyncScan ==
    /\ mgr.resync.pc = "scan"
    /\ LET me == mgr.resync
           name == me.onDisk[me.i]
           existing == registry[name]
           fresh == scanLocalSkill(disk, name)
           next == [me EXCEPT !.i = @ + 1,
                              !.pc = IF me.i = Len(me.onDisk) THEN "done" ELSE "scan"]
       IN \E scanned \in ScanOutcomes(disk, name) :
             /\ registry' = IF scanned THEN [registry EXCEPT ![name] = fresh] ELSE registry
             /\ mgr' = [mgr EXCEPT !.resync =
                          IF name \notin me.inRegistry
                          THEN IF scanned THEN [next EXCEPT !.added = Append(@, name)]
                               ELSE next
                          ELSE IF /\ scanned
                                  /\ existing.present
                                  /\ fresh.contentHash # existing.contentHash
                          THEN [next EXCEPT !.modified = Append(@, name)]
                          ELSE [next EXCEPT !.unchanged = Append(@, name)]]
    /\ UNCHANGED <<disk, lockFile, syncing, call, inst, diffRun, others>>

\* syncRegistry returns its summary
ResyncReturn ==
    /\ mgr.resync.pc = "done"
    /\ mgr' = [mgr EXCEPT !.resync = IdleResync]
    /\ UNCHANGED <<disk, registry, lockFile, syncing, call, inst, diffRun, others>>

\* a process starts with a new SkillManager over persisted storage in
\* which n1 is managed by the sync engine
InitManager ==
    /\ \E p \in Persisted :
          /\ p.lock.skills[Str_n1].present
          /\ ~p.lock.skills[Str_n2].present
          /\ disk = p.disk
          /\ lockFile = p.lock
    /\ registry = EmptyRegistry
    /\ syncing = FALSE
    /\ call = [c \in Callers |-> IdleCall]
    /\ inst = IdleInst
    /\ mgr = FreshMgr
    /\ diffRun = NoDiffRun
    /\ OthersIdle

\* startup, the watch, the list and uninstall tools, the user and shutdown
NextManager ==
    \/ InitializeCall
    \/ InitializeDiscover
    \/ InitializeScan
    \/ Shutdown
    \/ \E n \in Names : \E d \in UserDirs(n) : DiskEdit(n, d)
    \/ \E n \in Names : ToolUninstall(n) /\ mgr' = Notified(mgr) /\ UNCHANGED <<diffRun, others>>
    \/ DebounceFire
    \/ ToolRefresh
    \/ ResyncDiscover
    \/ ResyncScan
    \/ ResyncReturn

SpecManager == InitManager /\ [][NextManager]_vars

\* an install by the tool runs while the manager watches the packages
\* directory and is shut down
NextShutdown ==
    \/ \E force \in BOOLEAN :
          InstallCall(Url1, <<>>, force) /\ UNCHANGED <<mgr, diffRun, others>>
    \/ InstallStat /\ UNCHANGED <<mgr, diffRun, others>>
    \/ InstallScan /\ UNCHANGED <<mgr, diffRun, others>>
    \/ InstallFetch /\ UNCHANGED <<mgr, diffRun, others>>
    \/ InstallWrite /\ mgr' = Notified(mgr) /\ UNCHANGED <<diffRun, others>>
    \/ InstallReturn /\ UNCHANGED <<mgr, diffRun, others>>
    \/ Shutdown
    \/ DebounceFire
    \/ ResyncDiscover
    \/ ResyncScan
    \/ ResyncReturn

SpecShutdown == InitInstall /\ [][NextShutdown]_vars

\* the same, where the file-system calls initialize awaits settle
SpecManagerLive ==
    SpecManager /\ WF_vars(InitializeDiscover) /\ WF_vars(InitializeScan)

\* ------------------------------------------------------------------ computeSyncDiff called directly

\* the discovered maps handed to computeSyncDiff: keys are distinct URLs in
\* insertion order, each with a marker and the ids of the subscriptions
\* that returned it
DiffMarkers ==
    {StringValue("t1"), StringValue("t2"), StringValue("t1.0"), NumberValue("t1")}

DiscoveredEntries(url) ==
    {[githubUrl |-> url, updatedAt |-> m, subIds |-> ids,
      inferredName |-> inferNameFromUrl(url)] :
        m \in DiffMarkers,
        ids \in IF url = Url1 THEN {<<"s1">>, <<"s1", "s2">>} ELSE {<<"s2">>}}

DiscoveredMaps ==
    {<<>>}
    \cup {<<d>> : d \in DiscoveredEntries(Url1) \cup DiscoveredEntries(Url2)}
    \cup {<<d, e>> : d \in DiscoveredEntries(Url1), e \in DiscoveredEntries(Url2)}
    \cup {<<e, d>> : d \in DiscoveredEntries(Url1), e \in DiscoveredEntries(Url2)}

\* the lock entries handed to computeSyncDiff (makeLockedSkill)
LockedEntries ==
    {SyncedEntry(url, "s1", m, Clean) : url \in {Url1, Url2}, m \in Markers}

\* the locks handed to computeSyncDiff (makeLock): no two entries carry the
\* same URL, as sync only installs a URL that no entry carries
DiffLocks ==
    {[emptyLock EXCEPT !.skills = sk] :
        sk \in {f \in [Names -> {NoEntry} \cup LockedEntries] :
                  \A n, o \in Names :
                     (n # o /\ f[n].present /\ f[o].present) => f[n].githubUrl # f[o].githubUrl}}

\* the policies handed to computeSyncDiff (makeConfig)
DiffConfigs ==
    {[defaultConfig EXCEPT !.conflictPolicy = p, !.autoRemove = a] :
        p \in {"skip", "overwrite", "unmanage"}, a \in BOOLEAN}

\* what skillManager.getSkill can answer during the call: a skill is not
\* registered, registered with the content that was installed, or
\* registered with content edited since
DiffRegistries ==
    {[n \in Names |-> IF n \in edited THEN scanLocalSkill([EmptyDisk EXCEPT ![n] = SyncedDir(OneWarning)], n)
                      ELSE IF n \in same THEN scanLocalSkill([EmptyDisk EXCEPT ![n] = SyncedDir(Clean)], n)
                      ELSE NoSkill] :
        edited \in SUBSET Names, same \in SUBSET Names}

\* the arguments of a direct call
InitDiff ==
    /\ disk = EmptyDisk
    /\ registry \in DiffRegistries
    /\ lockFile = emptyLock
    /\ syncing = FALSE
    /\ call = [c \in Callers |-> IdleCall]
    /\ inst = IdleInst
    /\ mgr = ReadyMgr
    /\ OthersIdle
    /\ \E d \in DiscoveredMaps, l \in DiffLocks, c \in DiffConfigs :
          diffRun = [pc |-> "called", discovered |-> d, lock |-> l, config |-> c,
                     diff |-> EmptyDiff]

\* const diff = computeSyncDiff(discovered, lock, config)
DiffReturn ==
    /\ diffRun.pc = "called"
    /\ diffRun' = [diffRun EXCEPT
                     !.pc = "returned",
                     !.diff = computeSyncDiff(diffRun.discovered, diffRun.lock,
                                              diffRun.config, registry)]
    /\ UNCHANGED <<disk, registry, lockFile, syncing, call, inst, mgr, others>>

NextDiff == DiffReturn

SpecDiff == InitDiff /\ [][NextDiff]_vars

\* ------------------------------------------------------------------ fetchAndScanSkill and fetchSkillFiles, request by request

MAX_FILES == 50
MAX_TOTAL_SIZE == 2097152

ALLOWED_DOWNLOAD_HOSTS ==
    {"raw.githubusercontent.com", "github.com", "objects.githubusercontent.com"}

\* the hosts of the two request templates: the contents API and the raw file
ApiHost == "api.github.com"
RawHost == "raw.githubusercontent.com"

\* a file of the listing: the host of its download_url ("" when the URL is
\* null, "?" when new URL() throws on it), its extension class, whether its
\* declared size is over MAX_FILE_SIZE, whether its name is a suspicious one,
\* whether the download succeeds, the length and the findings of its content
FileEntry(host, length, content) ==
    [type |-> "file", host |-> host, ext |-> "text", oversized |-> FALSE,
     suspicious |-> FALSE, ok |-> TRUE, length |-> length, content |-> content]

SmallFile == FileEntry(RawHost, 1, Clean)

\* the entries a directory listing is made of
FetchEntries ==
    {SmallFile,
     FileEntry(RawHost, 1, FourWarnings),
     FileEntry(RawHost, 1, Malicious),
     FileEntry("evil.example", 1, Malicious),
     FileEntry("?", 1, Clean),
     FileEntry("", 1, Clean),
     [SmallFile EXCEPT !.type = "dir"],
     [SmallFile EXCEPT !.ext = "binary"],
     [SmallFile EXCEPT !.oversized = TRUE],
     [SmallFile EXCEPT !.suspicious = TRUE],
     [SmallFile EXCEPT !.ok = FALSE]}

\* what the remote answers: the contents API fails, throws, or returns one
\* file or a listing; the raw request succeeds or not; short listings of all
\* entries, one file more than MAX_FILES, and three files of half the budget
Remotes ==
    LET half == FileEntry(RawHost, MAX_TOTAL_SIZE \div 2, Clean)
        listings ==
            {<<>>} \cup {<<e>> : e \in FetchEntries}
            \cup {<<e, f>> : e \in {SmallFile, FileEntry("evil.example", 1, Malicious),
                                    [SmallFile EXCEPT !.suspicious = TRUE]},
                             f \in FetchEntries}
            \cup {[k \in 1..(MAX_FILES + 1) |-> SmallFile], <<half, half, half, SmallFile>>}
        bodies == {[length |-> 1, content |-> Clean],
                   [length |-> 1, content |-> OneWarning],
                   [length |-> MAX_TOTAL_SIZE + 1, content |-> Malicious]}
    IN {[api |-> "array", raw |-> FALSE, body |-> [length |-> 0, content |-> Clean],
         entries |-> l] : l \in listings}
       \cup {[api |-> a, raw |-> r, body |-> b, entries |-> <<>>] :
                a \in {"object", "fail"}, r \in BOOLEAN, b \in bodies}
       \cup {[api |-> "throw", raw |-> FALSE, body |-> [length |-> 0, content |-> Clean],
              entries |-> <<>>]}

\* a FetchScanResult with the given threats
FetchScanResult(riskLevel, safe, criticalCount, warningCount, filesScanned, contentHash) ==
    [riskLevel |-> riskLevel, safe |-> safe, criticalCount |-> criticalCount,
     warningCount |-> warningCount, filesScanned |-> filesScanned,
     contentHash |-> contentHash]

\* scanSkillContent / buildResult over one content
scanSkillContent(content) ==
    FetchScanResult(RiskLevel(content.crit, content.warn),
                    content.crit = 0 /\ content.warn < MediumWarnings,
                    content.crit, content.warn, 1, Hash(<<content>>))

\* the call has been made and nothing has run yet
InitFetch ==
    /\ disk = EmptyDisk
    /\ registry = EmptyRegistry
    /\ lockFile = emptyLock
    /\ syncing = FALSE
    /\ call = [c \in Callers |-> IdleCall]
    /\ inst = IdleInst
    /\ mgr = ReadyMgr
    /\ diffRun = NoDiffRun
    /\ direct = NoDirect /\ lockIo = NoLockIo /\ watch = NoWatch
    /\ discovery = NoDiscovery /\ periodic = NoPeriodic
    /\ \E fn \in {"fetchAndScanSkill", "fetchSkillFiles"}, url \in UrlInputs,
          remote \in Remotes :
          fetchRun = [pc |-> "called", fn |-> fn, url |-> url, remote |-> remote,
                      requests |-> <<>>, i |-> 0, stopped |-> FALSE,
                      files |-> <<>>, totalSize |-> 0, criticalCount |-> 0,
                      warningCount |-> 0, errors |-> {}, failed |-> "",
                      result |-> FetchScanResult("safe", TRUE, 0, 0, 0, NoHash)]

\* the frame of a step of the call
FetchOnly ==
    UNCHANGED <<disk, registry, lockFile, syncing, call, inst, mgr, diffRun,
                direct, lockIo, watch, discovery, periodic>>

\* the call returns a scan result, the installer's fetch returns its files
FetchReturns(run, result) == [run EXCEPT !.pc = "returned", !.result = result]

\* the installer throws
FetchThrows(run, reason) == [run EXCEPT !.pc = "failed", !.failed = reason]

\* a call that asks the contents API whatever the source URL is (not the
\* program's)
FetchUnvalidated ==
    /\ fetchRun.pc = "called"
    /\ fetchRun' = [fetchRun EXCEPT !.pc = "api"]
    /\ FetchOnly

\* validateGithubUrl: fetchAndScanSkill returns the invalid-url result,
\* installSkill throws before it reaches fetchSkillFiles
FetchValidate ==
    /\ fetchRun.pc = "called"
    /\ fetchRun' =
          IF validateGithubUrl(fetchRun.url) THEN [fetchRun EXCEPT !.pc = "api"]
          ELSE IF fetchRun.fn = "fetchAndScanSkill"
          THEN FetchReturns(fetchRun, FetchScanResult("high", FALSE, 1, 0, 0, NoHash))
          ELSE FetchThrows(fetchRun, "url")
    /\ FetchOnly

\* the one file of a single-file answer is scanned, or returned for writing
FetchSingle(run, body) ==
    LET one == [run EXCEPT !.files = <<body>>, !.totalSize = body.length]
    IN IF run.fn = "fetchAndScanSkill"
       THEN FetchReturns(one, scanSkillContent(body.content))
       ELSE FetchReturns(one, run.result)

\* the request to the contents API
FetchApi ==
    /\ fetchRun.pc = "api"
    /\ LET run == [fetchRun EXCEPT !.requests = Append(@, ApiHost)]
           api == fetchRun.remote.api
       IN fetchRun' =
             IF api = "throw"
             THEN IF run.fn = "fetchAndScanSkill"
                  THEN FetchReturns(run, FetchScanResult("medium", FALSE, 0, 1, 0, NoHash))
                  ELSE FetchThrows(run, "network")
             ELSE IF api = "fail" THEN [run EXCEPT !.pc = "raw"]
             ELSE IF api = "object" THEN FetchSingle(run, run.remote.body)
             ELSE [run EXCEPT !.pc = "entries", !.i = 1]
    /\ FetchOnly

\* the request for the raw file after a failed API request
FetchRaw ==
    /\ fetchRun.pc = "raw"
    /\ LET run == [fetchRun EXCEPT !.requests = Append(@, RawHost)]
       IN fetchRun' =
             IF run.remote.raw THEN FetchSingle(run, run.remote.body)
             ELSE IF run.fn = "fetchAndScanSkill"
             THEN FetchReturns(run, FetchScanResult("medium", FALSE, 0, 1, 0, NoHash))
             ELSE FetchThrows(run, "fetch")
    /\ FetchOnly

\* one turn of the loop over the entries: the guards in the order of the
\* code, then the download
FetchEntry ==
    /\ fetchRun.pc = "entries"
    /\ ~fetchRun.stopped
    /\ fetchRun.i <= Len(fetchRun.remote.entries)
    /\ LET run == fetchRun
           scans == run.fn = "fetchAndScanSkill"
           entry == run.remote.entries[run.i]
           next == [run EXCEPT !.i = @ + 1]
           Skip(error, warnings) ==
               IF scans
               THEN [next EXCEPT !.errors = IF error = "" THEN @ ELSE @ \cup {error},
                                 !.warningCount = @ + warnings]
               ELSE next
           flagged == IF scans /\ entry.suspicious
                      THEN [next EXCEPT !.warningCount = @ + 1] ELSE next
           asked == [flagged EXCEPT !.requests = Append(@, entry.host)]
           total == run.totalSize + entry.length
       IN fetchRun' =
             IF Len(run.files) >= MAX_FILES
             THEN [Skip("file-limit", 0) EXCEPT !.stopped = TRUE, !.i = run.i]
             ELSE IF scans /\ entry.type = "dir"
             THEN [Skip("subdirectory", 1) EXCEPT
                      !.warningCount = @ + (IF entry.suspicious THEN 1 ELSE 0)]
             ELSE IF entry.type # "file" \/ entry.host = "" THEN flagged
             ELSE IF entry.ext = "binary"
             THEN [flagged EXCEPT !.warningCount = IF scans THEN @ + 1 ELSE @]
             ELSE IF entry.ext # "text" THEN flagged
             ELSE IF entry.oversized
             THEN [flagged EXCEPT !.warningCount = IF scans THEN @ + 1 ELSE @,
                                  !.errors = IF scans THEN @ \cup {"oversized"} ELSE @]
             ELSE IF entry.host \notin ALLOWED_DOWNLOAD_HOSTS
             THEN [flagged EXCEPT
                      !.errors = IF scans
                                 THEN @ \cup {IF entry.host = "?" THEN "invalid-download-url"
                                              ELSE "unexpected-host"}
                                 ELSE @]
             ELSE IF ~entry.ok
             THEN [asked EXCEPT !.errors = IF scans THEN @ \cup {"fetch-failed"} ELSE @]
             ELSE IF total > MAX_TOTAL_SIZE
             THEN [asked EXCEPT !.totalSize = total, !.stopped = TRUE, !.i = run.i,
                                !.errors = IF scans THEN @ \cup {"total-size-limit"} ELSE @]
             ELSE [asked EXCEPT !.totalSize = total,
                                !.files = Append(@, [length |-> entry.length,
                                                     content |-> entry.content]),
                                !.criticalCount = @ + (IF scans THEN entry.content.crit ELSE 0),
                                !.warningCount = @ + (IF scans THEN entry.content.warn ELSE 0)]
    /\ FetchOnly

\* after the loop: the result is built from all threats, the files returned
FetchDone ==
    /\ fetchRun.pc = "entries"
    /\ fetchRun.stopped \/ fetchRun.i > Len(fetchRun.remote.entries)
    /\ LET run == fetchRun
           c == run.criticalCount
           w == run.warningCount
       IN fetchRun' =
             IF run.fn = "fetchAndScanSkill"
             THEN FetchReturns(run,
                     FetchScanResult(RiskLevel(c, w), c = 0 /\ w < MediumWarnings,
                                     c, w, Len(run.files), Hash(ContentsOf(run.files))))
             ELSE FetchReturns(run, run.result)
    /\ FetchOnly

NextFetch == FetchValidate \/ FetchApi \/ FetchRaw \/ FetchEntry \/ FetchDone

SpecFetch == InitFetch /\ [][NextFetch]_vars

\* ------------------------------------------------------------------ exported functions called directly

MaxCritical == 3
MaxWarnings == 6

\* the contents scanSkillContent is called with, by what it finds in them
ScanInputs == [crit : 0..MaxCritical, warn : 0..MaxWarnings]

\* the packages directories a call starts from
CallDisks ==
    {EmptyDisk,
     [EmptyDisk EXCEPT ![Str_n1] = SyncedDir(Clean)],
     [EmptyDisk EXCEPT ![Str_n1] = SyncedDir(Clean), ![Str_n2] = SyncedDir(OneWarning)]}

InitCalls ==
    /\ disk \in CallDisks
    /\ registry = RegistryOf(disk)
    /\ lockFile = emptyLock
    /\ syncing = FALSE
    /\ call = [c \in Callers |-> IdleCall]
    /\ inst = IdleInst
    /\ mgr = ReadyMgr
    /\ diffRun = NoDiffRun
    /\ OthersIdle

\* the frame of a direct call that leaves the packages directory alone
CallOnly ==
    UNCHANGED <<disk, registry, lockFile, syncing, call, inst, mgr, diffRun,
                fetchRun, lockIo, watch, discovery, periodic>>

\* scanSkillContent(content)
ScanContentCall(content) ==
    /\ direct' = [fn |-> "scanSkillContent", content |-> content,
                  result |-> scanSkillContent(content)]
    /\ CallOnly

\* the names the path functions are called with
TraversalNames == {Str_traversal, Str_traversal2, Str_etcPasswd}
PathInputs == TraversalNames \cup {Str_n1, Str_n2, <<".", ".">>, <<>>}

\* safeSkillPath(name)
SafeSkillPathCall(name) ==
    /\ direct' = [fn |-> "safeSkillPath", name |-> name,
                  ok |-> safeSkillPath(name).ok,
                  error |-> IF safeSkillPath(name).ok THEN "" ELSE "traversal",
                  path |-> safeSkillPath(name).path]
    /\ CallOnly

\* the frame of a direct call that works on the packages directory
CallOnDisk ==
    UNCHANGED <<registry, lockFile, syncing, call, inst, mgr, diffRun,
                fetchRun, lockIo, watch, discovery, periodic>>

\* uninstallSkill(name)
UninstallCall(name) ==
    /\ direct' = [fn |-> "uninstallSkill", name |-> name,
                  ok |-> uninstallSkill(disk, name).ok,
                  error |-> uninstallSkill(disk, name).error]
    /\ disk' = uninstallSkill(disk, name).disk
    /\ CallOnDisk

\* installSkill(githubUrl, name, force) while the remote serves one listing
InstallSkillCall(url, name, force, listing) ==
    LET all == 1..Len(listing)
        out == installSkill(disk, url, name, force, TRUE, listing, all, TRUE, listing, all)
    IN /\ direct' = [fn |-> "installSkill", name |-> SkillNameFor(url, name),
                     ok |-> out.ok, error |-> out.failedAt, result |-> out.result]
       /\ disk' = out.disk
       /\ CallOnDisk

\* the listings the remote serves to a direct install
CallListings ==
    {<<>>,
     <<[name |-> FileNames[1], content |-> Clean]>>,
     <<[name |-> FileNames[1], content |-> FourWarnings]>>,
     <<[name |-> FileNames[1], content |-> Clean],
       [name |-> FileNames[2], content |-> OneWarning]>>}

\* the orders in which readdir can enumerate a directory of n files
ReaddirOrders(n) ==
    {order \in [1..n -> 1..n] : \A j, k \in 1..n : order[j] = order[k] => j = k}

\* scanLocalSkill when readdir enumerates the files in the given order: the
\* contents are joined and hashed in that order
scanLocalSkillIn(d, name, order) ==
    [present |-> TRUE,
     contentHash |-> Hash([k \in 1..Len(d[name].files) |->
                             d[name].files[order[k]].content])]

\* skillManager.scanLocalSkill(name) on an installed package
ScanLocalCall(name, order) ==
    /\ disk[name].present
    /\ direct' = [fn |-> "scanLocalSkill", name |-> name,
                  contentHash |-> scanLocalSkillIn(disk, name, order).contentHash]
    /\ registry' = [registry EXCEPT ![name] = scanLocalSkillIn(disk, name, order)]
    /\ UNCHANGED <<disk, lockFile, syncing, call, inst, mgr, diffRun,
                   fetchRun, lockIo, watch, discovery, periodic>>

\* what can be stored under the path of the lock file or the config file:
\* nothing, text that is not JSON, the JSON value null, or a JSON object
\* with a version and a body (the lock's skills, the config's other
\* fields) that is well-formed, null, or of a wrong type
StoredFiles ==
    {[kind |-> "missing", version |-> 0, body |-> "none"],
     [kind |-> "unparseable", version |-> 0, body |-> "none"],
     [kind |-> "null", version |-> 0, body |-> "none"]}
    \cup [kind : {"object"}, version : {1, 2}, body : {"valid", "null", "invalid"}]

\* readSyncLock: what it returns for a stored file, or that it throws
readSyncLock(file) ==
    IF file.kind = "missing" THEN [raised |-> FALSE, value |-> "emptyLock"]
    ELSE IF file.kind = "unparseable" THEN [raised |-> TRUE, value |-> "none"]
    ELSE IF /\ file.kind = "object"
            /\ file.version = 1
            /\ file.body \in {"valid", "null"}
         THEN [raised |-> FALSE, value |-> "parsed"]
    ELSE [raised |-> FALSE, value |-> "emptyLock"]

\* readSyncConfig: what it returns for a stored file, or that it throws
readSyncConfig(file) ==
    IF file.kind = "missing" THEN [raised |-> FALSE, value |-> "defaultConfig"]
    ELSE IF file.kind = "unparseable" THEN [raised |-> TRUE, value |-> "none"]
    ELSE IF file.kind = "object" /\ file.version = 1 /\ file.body = "valid"
         THEN [raised |-> FALSE, value |-> "parsed"]
    ELSE [raised |-> FALSE, value |-> "defaultConfig"]

\* readSyncLock() over a stored file
ReadSyncLockCall(file) ==
    /\ direct' = [fn |-> "readSyncLock", file |-> file, result |-> readSyncLock(file)]
    /\ CallOnly

\* readSyncConfig() over a stored file
ReadSyncConfigCall(file) ==
    /\ direct' = [fn |-> "readSyncConfig", file |-> file, result |-> readSyncConfig(file)]
    /\ CallOnly

\* the catalog in scan order, CRITICAL_PATTERNS then WARNING_PATTERNS: one
\* critical pattern and two warning patterns, one of them of the category
\* the synthetic long-line warning has
CatalogPatterns ==
    <<[source |-> "curl-pipe-sh", severity |-> "critical", category |-> "rce"],
      [source |-> "atob", severity |-> "warning", category |-> "obfuscation"],
      [source |-> "child_process", severity |-> "warning", category |-> "shell-execution"]>>

\* a line of the content: whether it is longer than MAX_LINE_LENGTH, and
\* the patterns its text matches
MaxLines == 3
ContentLines ==
    [long : BOOLEAN, matches : SUBSET {CatalogPatterns[p].source : p \in 1..Len(CatalogPatterns)}]
LineInputs == UNION {[1..n -> ContentLines] : n \in 1..MaxLines}

\* a long line flagged once for every pattern of the catalog (not the
\* program's)
LongLineThreatEvery(threats, i) ==
    Append(threats, [pattern |-> "excessive-line-length", severity |-> "warning",
                     line |-> i, category |-> "obfuscation"])

\* the synthetic warning of long line i, unless the line is flagged already
LongLineThreat(threats, i) ==
    IF \E k \in 1..Len(threats) : threats[k].category = "obfuscation" /\ threats[k].line = i
    THEN threats
    ELSE Append(threats, [pattern |-> "excessive-line-length", severity |-> "warning",
                          line |-> i, category |-> "obfuscation"])

\* the threat of a pattern matched on line i, unless the pattern was found
\* before
PatternThreat(threats, pattern, i) ==
    IF \E k \in 1..Len(threats) :
          threats[k].pattern = pattern.source /\ threats[k].severity = pattern.severity
    THEN threats
    ELSE Append(threats, [pattern |-> pattern.source, severity |-> pattern.severity,
                          line |-> i, category |-> pattern.category])

\* scanSkillContent, the per-line loops: for every pattern, every line
RECURSIVE ScanLoop(_, _, _, _)
ScanLoop(lines, p, i, threats) ==
    IF p > Len(CatalogPatterns) THEN threats
    ELSE IF i > Len(lines) THEN ScanLoop(lines, p + 1, 1, threats)
    ELSE IF lines[i].long THEN ScanLoop(lines, p, i + 1, LongLineThreat(threats, i))
    ELSE IF CatalogPatterns[p].source \in lines[i].matches
    THEN ScanLoop(lines, p, i + 1, PatternThreat(threats, CatalogPatterns[p], i))
    ELSE ScanLoop(lines, p, i + 1, threats)

\* scanSkillContent(content) has been called with a content of some lines
InitScanLines ==
    /\ disk = EmptyDisk
    /\ registry = RegistryOf(disk)
    /\ lockFile = emptyLock
    /\ syncing = FALSE
    /\ call = [c \in Callers |-> IdleCall]
    /\ inst = IdleInst
    /\ mgr = ReadyMgr
    /\ diffRun = NoDiffRun
    /\ fetchRun = NoFetchRun /\ lockIo = NoLockIo /\ watch = NoWatch
    /\ discovery = NoDiscovery /\ periodic = NoPeriodic
    /\ \E lines \in LineInputs :
          direct = [fn |-> "scanSkillContent(lines)", lines |-> lines,
                    returned |-> FALSE, threats |-> <<>>]

\* scanSkillContent(content) runs over the lines of the content
ScanLinesCall ==
    /\ direct.fn = "scanSkillContent(lines)"
    /\ ~direct.returned
    /\ direct' = [direct EXCEPT !.returned = TRUE,
                                !.threats = ScanLoop(direct.lines, 1, 1, <<>>)]
    /\ CallOnly

SpecScanLines == InitScanLines /\ [][ScanLinesCall]_vars

\* calls of the functions that read no state of the process
NextPure ==
    \/ \E content \in ScanInputs : ScanContentCall(content)
    \/ \E name \in PathInputs : SafeSkillPathCall(name)
    \/ \E file \in StoredFiles : ReadSyncLockCall(file)
    \/ \E file \in StoredFiles : ReadSyncConfigCall(file)

SpecPure == InitCalls /\ [][NextPure]_vars

\* calls of the functions that work on the packages directory
NextCalls ==
    \/ \E name \in PathInputs : SafeSkillPathCall(name)
    \/ \E name \in PathInputs : UninstallCall(name)
    \/ \E url \in {Url1, UrlHttp}, name \in TraversalNames \cup {Str_n2},
          force \in BOOLEAN, listing \in CallListings :
             InstallSkillCall(url, name, force, listing)
    \/ \E name \in Names :
          \E order \in ReaddirOrders(Len(disk[name].files)) : ScanLocalCall(name, order)

SpecCalls == InitCalls /\ [][NextCalls]_vars

\* ------------------------------------------------------------------ writeSyncLock, step by step

\* the callers that write the lock file in one process
LockWriters == {"sync", "upsertLockedSkill", "removeLockedSkill"}

\* a file: whose JSON text it holds, and whether it holds all of it
\* ("whole") or is truncated, incomplete or mixed ("part")
LockText(value, state) == [value |-> value, state |-> state]
NoFile == LockText("none", "absent")

\* a writer: its position, and under which path the file it holds open is
\* found ("tmp", "lock" once a rename has moved it there, "gone" once it
\* has been replaced)
IdleWriter == [pc |-> "idle", at |-> "none"]

\* a lock file written earlier, no temp file, no call running
InitLock ==
    /\ disk = EmptyDisk
    /\ registry = RegistryOf(disk)
    /\ lockFile = emptyLock
    /\ syncing = FALSE
    /\ call = [c \in Callers |-> IdleCall]
    /\ inst = IdleInst
    /\ mgr = ReadyMgr
    /\ diffRun = NoDiffRun
    /\ direct = NoDirect /\ fetchRun = NoFetchRun /\ watch = NoWatch
    /\ discovery = NoDiscovery /\ periodic = NoPeriodic
    /\ lockIo = [lock |-> LockText("old", "whole"), tmp |-> NoFile,
                 w |-> [x \in LockWriters |-> IdleWriter], seen |-> NoFile]

LockOnly ==
    UNCHANGED <<disk, registry, lockFile, syncing, call, inst, mgr, diffRun,
                direct, fetchRun, watch, discovery, periodic>>

\* readSyncLock at the start of a write: JSON.parse throws on a file that
\* does not hold a whole text; removeLockedSkill returns at once when the
\* name is not in the lock
LockRead(x) ==
    /\ lockIo.w[x].pc \in {"idle", "failed", "done"}
    /\ \E pc \in IF lockIo.lock.state = "part" THEN {"failed"}
                 ELSE IF x = "removeLockedSkill" THEN {"ready", "done"}
                 ELSE {"ready"} :
          lockIo' = [lockIo EXCEPT !.w[x] = [pc |-> pc, at |-> "none"]]
    /\ LockOnly

\* writeFile(tmpPath, ...) opens the one temp path for writing: the file
\* under it, if any, is truncated
LockOpen(x) ==
    /\ lockIo.w[x].pc = "ready"
    /\ lockIo' = [lockIo EXCEPT !.tmp = LockText(x, "part"),
                                !.w[x] = [pc |-> "open", at |-> "tmp"]]
    /\ LockOnly

\* what a file holds after x has written its text into it: x's whole text
\* when x was the last to open it; otherwise two writers wrote the same
\* file and it may hold x's text or a mix
Written(file, x) ==
    IF file.value = x THEN {LockText(x, "whole")}
    ELSE {LockText(x, "whole"), LockText(file.value, "part")}

\* writeFile writes the text into the file it opened and closes it
LockWrite(x) ==
    /\ lockIo.w[x].pc = "open"
    /\ \E file \in Written(IF lockIo.w[x].at = "lock" THEN lockIo.lock ELSE lockIo.tmp, x) :
          lockIo' = [lockIo EXCEPT
                        !.tmp = IF lockIo.w[x].at = "tmp" THEN file ELSE @,
                        !.lock = IF lockIo.w[x].at = "lock" THEN file ELSE @,
                        !.w[x].pc = "written"]
    /\ LockOnly

\* writeFile fails after the open: writeSyncLock throws before the rename
LockWriteFail(x) ==
    /\ lockIo.w[x].pc = "open"
    /\ lockIo' = [lockIo EXCEPT !.w[x] = [pc |-> "failed", at |-> "none"]]
    /\ LockOnly

\* where an open file is found after the temp path was renamed onto the
\* lock path
Renamed(at) ==
    CASE at = "tmp" -> "lock"
      [] at = "lock" -> "gone"
      [] OTHER -> at

\* rename(tmpPath, SYNC_LOCK_PATH): throws when the temp path is gone,
\* otherwise the file under the temp path replaces the lock file
LockRename(x) ==
    /\ lockIo.w[x].pc = "written"
    /\ lockIo' =
          IF lockIo.tmp = NoFile
          THEN [lockIo EXCEPT !.w[x] = [pc |-> "failed", at |-> "none"]]
          ELSE [lockIo EXCEPT
                   !.lock = lockIo.tmp,
                   !.tmp = NoFile,
                   !.w = [y \in LockWriters |->
                            IF y = x THEN [pc |-> "done", at |-> "none"]
                            ELSE [lockIo.w[y] EXCEPT !.at = Renamed(@)]]]
    /\ LockOnly

\* any reader opens the lock path and reads what is under it
LockObserve ==
    /\ lockIo' = [lockIo EXCEPT !.seen = lockIo.lock]
    /\ LockOnly

NextLock ==
    \/ \E x \in LockWriters :
          LockRead(x) \/ LockOpen(x) \/ LockWrite(x) \/ LockWriteFail(x) \/ LockRename(x)
    \/ LockObserve

SpecLock == InitLock /\ [][NextLock]_vars

\* ------------------------------------------------------------------ startWatching: the debounce timer

WATCH_DEBOUNCE_MS == 500

\* the clock advances in steps of TickMs up to MaxTime; at most MaxEvents
\* watch events are delivered
TickMs == 250
MaxTime == 2500
MaxEvents == 4

\* the watcher is set up, no event has been delivered, no timer is pending.
\* timers holds the pending timeouts of the process, debounceTimer the
\* handle the manager keeps (0 for null), lastEvent and burst the time of
\* the last event and the number of events that followed one another by
\* less than the debounce period, resyncs the resyncs started since the
\* last event
InitWatch ==
    /\ disk = EmptyDisk
    /\ registry = RegistryOf(disk)
    /\ lockFile = emptyLock
    /\ syncing = FALSE
    /\ call = [c \in Callers |-> IdleCall]
    /\ inst = IdleInst
    /\ mgr = ReadyMgr
    /\ diffRun = NoDiffRun
    /\ direct = NoDirect /\ fetchRun = NoFetchRun /\ lockIo = NoLockIo
    /\ discovery = NoDiscovery /\ periodic = NoPeriodic
    /\ watch = [now |-> 0, timers |-> {}, debounceTimer |-> 0, nextId |-> 1,
                lastEvent |-> 0, burst |-> 0, resyncs |-> 0]

WatchOnly ==
    UNCHANGED <<disk, registry, lockFile, syncing, call, inst, mgr, diffRun,
                direct, fetchRun, lockIo, discovery, periodic>>

\* a timeout whose delay has passed; the event loop runs due timeouts
\* before it delivers further events
Due == {t \in watch.timers : t.due <= watch.now}

\* a watch callback that starts a new timeout without clearing the one
\* that is pending
WatchEventKeepsTimer ==
    /\ Due = {}
    /\ watch.nextId <= MaxEvents
    /\ watch.now + WATCH_DEBOUNCE_MS <= MaxTime
    /\ watch' = [watch EXCEPT
                    !.timers = @ \cup {[id |-> watch.nextId,
                                        due |-> watch.now + WATCH_DEBOUNCE_MS]},
                    !.debounceTimer = watch.nextId,
                    !.nextId = @ + 1,
                    !.lastEvent = watch.now,
                    !.burst = IF @ > 0 /\ watch.now - watch.lastEvent < WATCH_DEBOUNCE_MS
                              THEN @ + 1 ELSE 1,
                    !.resyncs = 0]
    /\ WatchOnly

\* the watch callback: clearTimeout of the kept handle, if any, then
\* setTimeout of a resync after WATCH_DEBOUNCE_MS
WatchEvent ==
    /\ Due = {}
    /\ watch.nextId <= MaxEvents
    /\ watch.now + WATCH_DEBOUNCE_MS <= MaxTime
    /\ watch' = [watch EXCEPT
                    !.timers = {t \in @ : t.id # watch.debounceTimer}
                                  \cup {[id |-> watch.nextId,
                                         due |-> watch.now + WATCH_DEBOUNCE_MS]},
                    !.debounceTimer = watch.nextId,
                    !.nextId = @ + 1,
                    !.lastEvent = watch.now,
                    !.burst = IF @ > 0 /\ watch.now - watch.lastEvent < WATCH_DEBOUNCE_MS
                              THEN @ + 1 ELSE 1,
                    !.resyncs = 0]
    /\ WatchOnly

\* a due timeout runs: syncRegistry() is started; the handle is kept
WatchTimerFires ==
    /\ \E t \in Due :
          watch' = [watch EXCEPT !.timers = @ \ {t}, !.resyncs = @ + 1]
    /\ WatchOnly

\* time passes while no timeout is due
WatchTick ==
    /\ Due = {}
    /\ watch.now < MaxTime
    /\ watch' = [watch EXCEPT !.now = @ + TickMs]
    /\ WatchOnly

NextWatch == WatchEvent \/ WatchTimerFires \/ WatchTick

\* time passes and a due timeout is run
SpecWatch ==
    /\ InitWatch
    /\ [][NextWatch]_vars
    /\ WF_vars(WatchTick)
    /\ WF_vars(WatchTimerFires)

\* ------------------------------------------------------------------ SyncEngine.sync, phase 1 against the clock

\* the subscriptions of the config, each enabled or not
PacedSubIds == <<"s1", "s2", "s3", "s4">>

\* what phase 1 does, in order: a query of a subscription is started, it
\* returns or throws, the pacing delay elapses
Event(kind, id) == [kind |-> kind, id |-> id]

\* sync() has read a config and filtered its subscriptions; with none
\* enabled it has returned
InitDiscovery ==
    /\ disk = EmptyDisk
    /\ registry = RegistryOf(disk)
    /\ lockFile = emptyLock
    /\ syncing = FALSE
    /\ call = [c \in Callers |-> IdleCall]
    /\ inst = IdleInst
    /\ mgr = ReadyMgr
    /\ diffRun = NoDiffRun
    /\ direct = NoDirect /\ fetchRun = NoFetchRun /\ lockIo = NoLockIo /\ watch = NoWatch
    /\ periodic = NoPeriodic
    /\ \E enabled \in SUBSET {PacedSubIds[i] : i \in 1..Len(PacedSubIds)} :
          LET active == SelectSeq(PacedSubIds, LAMBDA id : id \in enabled)
          IN discovery = [pc |-> IF active = <<>> THEN "done" ELSE "query",
                          enabled |-> enabled, active |-> active, i |-> 1, log |-> <<>>]

DiscoveryOnly ==
    UNCHANGED <<disk, registry, lockFile, syncing, call, inst, mgr, diffRun,
                direct, fetchRun, lockIo, watch, periodic>>

\* searchSkills(sub.query, ...) is called for the next active subscription
DiscoveryQuery ==
    /\ discovery.pc = "query"
    /\ discovery' = [discovery EXCEPT
                        !.pc = "search",
                        !.log = Append(@, Event("query", discovery.active[discovery.i]))]
    /\ DiscoveryOnly

\* the position after subscription i is done with
AfterSubscription(d) == IF d.i < Len(d.active) THEN "query" ELSE "done"

\* searchSkills returns: the skills are merged, and unless this was the
\* last active subscription the delay is awaited
DiscoveryReturns ==
    /\ discovery.pc = "search"
    /\ discovery' = [discovery EXCEPT
                        !.pc = IF discovery.i < Len(discovery.active) THEN "delay" ELSE "done",
                        !.i = IF discovery.i < Len(discovery.active) THEN @ ELSE @ + 1,
                        !.log = Append(@, Event("returned", discovery.active[discovery.i]))]
    /\ DiscoveryOnly

\* searchSkills throws: the catch block records the error and the loop
\* goes on with the next subscription
DiscoveryThrows ==
    /\ discovery.pc = "search"
    /\ discovery' = [discovery EXCEPT
                        !.pc = AfterSubscription(discovery),
                        !.i = @ + 1,
                        !.log = Append(@, Event("threw", discovery.active[discovery.i]))]
    /\ DiscoveryOnly

\* delay(SYNC_API_DELAY_MS) has elapsed
DiscoveryDelay ==
    /\ discovery.pc = "delay"
    /\ discovery' = [discovery EXCEPT
                        !.pc = "query",
                        !.i = @ + 1,
                        !.log = Append(@, Event("delay", discovery.active[discovery.i]))]
    /\ DiscoveryOnly

NextDiscovery == DiscoveryQuery \/ DiscoveryReturns \/ DiscoveryThrows \/ DiscoveryDelay

SpecDiscovery == InitDiscovery /\ [][NextDiscovery]_vars

\* ------------------------------------------------------------------ SkillManager, overlapping initialize() calls

\* the callers of initialize(): main() in the background, and
\* ensureManagerInitialized of a tool call that finds initialized false
InitCallers == {"main", "tool1", "tool2"}

\* a manager of a started process: initialized, this.watcher, the watch
\* handles that are open (named after the call that opened them), the
\* position of every initialize() call, and whether shutdown() has run
InitStartup ==
    /\ \E d \in {[EmptyDisk EXCEPT ![Str_n1] = SyncedDir(Clean)],
                 [EmptyDisk EXCEPT ![Str_n1] = SyncedDir(Clean),
                                   ![Str_n2] = SyncedDir(Clean)]} : disk = d
    /\ registry = EmptyRegistry
    /\ lockFile = emptyLock
    /\ syncing = FALSE
    /\ call = [c \in Callers |-> IdleCall]
    /\ inst = IdleInst
    /\ mgr = [initialized |-> FALSE, watcher |-> "null", handles |-> {},
              init |-> [c \in InitCallers |-> IdleInit], shutdown |-> FALSE]
    /\ diffRun = NoDiffRun
    /\ OthersIdle

\* startWatching(): this.watcher = watch(...), or watch throws
startWatchingBy(m, c, watched) ==
    IF watched THEN [m EXCEPT !.watcher = c, !.handles = @ \cup {c}] ELSE m

\* stopWatching(): this.watcher.close() and this.watcher = null
stopWatchingHandle(m) ==
    IF m.watcher # "null"
    THEN [m EXCEPT !.handles = @ \ {m.watcher}, !.watcher = "null"]
    ELSE m

\* the end of initialize() call c
InitializeEndBy(m, c, watched) ==
    [startWatchingBy(m, c, watched) EXCEPT !.initialized = TRUE, !.init[c].pc = "done"]

\* main() calls initialize(); a tool calls it when initialized is false
StartupInitialize(c) ==
    /\ ~mgr.shutdown
    /\ mgr.init[c].pc = "idle"
    /\ c # "main" => ~mgr.initialized
    /\ mgr' = [mgr EXCEPT !.init[c].pc = "discover"]
    /\ UNCHANGED <<disk, registry, lockFile, syncing, call, inst, diffRun, others>>

\* initialize() call c: discoverSkills returns
StartupDiscover(c) ==
    /\ mgr.init[c].pc = "discover"
    /\ \E readable \in BOOLEAN, watched \in BOOLEAN :
          LET names == discoverSkills(disk, readable)
              found == [mgr EXCEPT !.init[c].names = names, !.init[c].i = 1,
                                   !.init[c].pc = "scan"]
          IN mgr' = IF names = <<>> THEN InitializeEndBy(found, c, watched) ELSE found
    /\ UNCHANGED <<disk, registry, lockFile, syncing, call, inst, diffRun, others>>

\* initialize() call c: one scanLocalSkill returns or throws
StartupScan(c) ==
    /\ mgr.init[c].pc = "scan"
    /\ LET name == mgr.init[c].names[mgr.init[c].i]
           last == mgr.init[c].i = Len(mgr.init[c].names)
       IN \E scanned \in ScanOutcomes(disk, name), watched \in BOOLEAN :
             LET m == [mgr EXCEPT !.init[c].i = @ + 1]
             IN /\ registry' = IF scanned
                               THEN [registry EXCEPT ![name] = scanLocalSkill(disk, name)]
                               ELSE registry
                /\ mgr' = IF last THEN InitializeEndBy(m, c, watched) ELSE m
    /\ UNCHANGED <<disk, lockFile, syncing, call, inst, diffRun, others>>

\* shutdown(), called by the signal handler of main()
StartupShutdown ==
    /\ ~mgr.shutdown
    /\ registry' = EmptyRegistry
    /\ mgr' = [stopWatchingHandle(mgr) EXCEPT !.initialized = FALSE, !.shutdown = TRUE]
    /\ UNCHANGED <<disk, lockFile, syncing, call, inst, diffRun, others>>

NextStartup ==
    \/ \E c \in InitCallers : StartupInitialize(c)
    \/ \E c \in InitCallers : StartupDiscover(c)
    \/ \E c \in InitCallers : StartupScan(c)
    \/ StartupShutdown

SpecStartup == InitStartup /\ [][NextStartup]_vars

\* ------------------------------------------------------------------ SkillManager, scans that overlap changes

\* the changes of the packages directory that are followed
MaxChanges == 3

\* no scanLocalSkill call is running
IdleScan == [pc |-> "idle", name |-> <<>>, skill |-> NoSkill]

\* a watching manager over an empty packages directory: the debounce
\* timer, the syncRegistry call and its scanLocalSkill call, the
\* scanLocalSkill call of the install tool, and the changes made so far
InitEventual ==
    /\ disk = EmptyDisk
    /\ registry = EmptyRegistry
    /\ lockFile = emptyLock
    /\ syncing = FALSE
    /\ call = [c \in Callers |-> IdleCall]
    /\ inst = IdleInst
    /\ mgr = [debounceTimer |-> FALSE,
              resync |-> [pc |-> "idle", onDisk |-> <<>>, inRegistry |-> {}, i |-> 0,
                          skill |-> NoSkill],
              toolScan |-> IdleScan, changes |-> 0]
    /\ diffRun = NoDiffRun
    /\ OthersIdle

EventualFrame == UNCHANGED <<lockFile, syncing, call, inst, diffRun, others>>

\* the content an install writes and the content a user leaves
EditedContent(dir) == IF dir = SyncedDir(Clean) THEN SyncedDir(OneWarning) ELSE SyncedDir(Clean)

\* the install tool: installSkill writes the directory, which raises a
\* watch event, and the tool calls scanLocalSkill
WatchedInstall(name) ==
    /\ mgr.changes < MaxChanges
    /\ mgr.toolScan.pc = "idle"
    /\ ~disk[name].present
    /\ disk' = [disk EXCEPT ![name] = SyncedDir(Clean)]
    /\ mgr' = [mgr EXCEPT !.changes = @ + 1, !.debounceTimer = TRUE,
                          !.toolScan = [IdleScan EXCEPT !.pc = "reading", !.name = name]]
    /\ UNCHANGED registry
    /\ EventualFrame

\* the uninstall tool: uninstallSkill removes the directory, which raises a
\* watch event, and removeSkill deletes the entry
WatchedUninstall(name) ==
    /\ mgr.changes < MaxChanges
    /\ uninstallSkill(disk, name).ok
    /\ disk' = uninstallSkill(disk, name).disk
    /\ registry' = [registry EXCEPT ![name] = NoSkill]
    /\ mgr' = [mgr EXCEPT !.changes = @ + 1, !.debounceTimer = TRUE]
    /\ EventualFrame

\* the user edits a file of a package, which raises a watch event
WatchedEdit(name) ==
    /\ mgr.changes < MaxChanges
    /\ disk[name].present
    /\ disk' = [disk EXCEPT ![name] = EditedContent(@)]
    /\ mgr' = [mgr EXCEPT !.changes = @ + 1, !.debounceTimer = TRUE]
    /\ UNCHANGED registry
    /\ EventualFrame

\* scanLocalSkill of the install tool: stat, readdir and the reads return
\* (or stat throws on a missing directory)
ToolScanRead ==
    /\ mgr.toolScan.pc = "reading"
    /\ LET name == mgr.toolScan.name
       IN mgr' = [mgr EXCEPT !.toolScan =
                    IF disk[name].present
                    THEN [@ EXCEPT !.pc = "read", !.skill = scanLocalSkill(disk, name)]
                    ELSE IdleScan]
    /\ UNCHANGED <<disk, registry>>
    /\ EventualFrame

\* scanLocalSkill of the install tool: this.registry.set(name, skill)
ToolScanSet ==
    /\ mgr.toolScan.pc = "read"
    /\ registry' = [registry EXCEPT ![mgr.toolScan.name] = mgr.toolScan.skill]
    /\ mgr' = [mgr EXCEPT !.toolScan = IdleScan]
    /\ UNCHANGED disk
    /\ EventualFrame

\* the debounce timer fires: syncRegistry() is called
RegistryDebounceFire ==
    /\ mgr.debounceTimer
    /\ mgr.resync.pc = "idle"
    /\ mgr' = [mgr EXCEPT !.debounceTimer = FALSE, !.resync.pc = "discover"]
    /\ UNCHANGED <<disk, registry>>
    /\ EventualFrame

\* where syncRegistry goes after the name at position i
AfterName(me) ==
    [me EXCEPT !.i = @ + 1, !.skill = NoSkill,
               !.pc = IF me.i >= Len(me.onDisk) THEN "idle" ELSE "scan"]

\* syncRegistry: discoverSkills returns, the registry keys are taken and
\* the names that are only in the registry are dropped
RegistryDiscover ==
    /\ mgr.resync.pc = "discover"
    /\ LET onDisk == discoverSkills(disk, TRUE)
           inRegistry == {n \in Names : registry[n].present}
       IN /\ registry' = [n \in Names |->
                            IF n \in inRegistry /\ ~Includes(onDisk, n) THEN NoSkill
                            ELSE registry[n]]
          /\ mgr' = [mgr EXCEPT !.resync =
                       AfterName([@ EXCEPT !.onDisk = onDisk, !.inRegistry = inRegistry,
                                           !.i = 0])]
    /\ UNCHANGED disk
    /\ EventualFrame

\* syncRegistry, scanLocalSkill of one name: stat, readdir and the reads
\* return (or stat throws on a missing directory)
RegistryScanRead ==
    /\ mgr.resync.pc = "scan"
    /\ LET name == mgr.resync.onDisk[mgr.resync.i]
       IN mgr' = [mgr EXCEPT !.resync =
                    IF disk[name].present
                    THEN [@ EXCEPT !.pc = "set", !.skill = scanLocalSkill(disk, name)]
                    ELSE AfterName(@)]
    /\ UNCHANGED <<disk, registry>>
    /\ EventualFrame

\* syncRegistry, scanLocalSkill of one name: this.registry.set(name, skill)
RegistryScanSet ==
    /\ mgr.resync.pc = "set"
    /\ registry' = [registry EXCEPT ![mgr.resync.onDisk[mgr.resync.i]] = mgr.resync.skill]
    /\ mgr' = [mgr EXCEPT !.resync = AfterName(@)]
    /\ UNCHANGED disk
    /\ EventualFrame

NextEventual ==
    \/ \E n \in Names : WatchedInstall(n)
    \/ \E n \in Names : WatchedUninstall(n)
    \/ \E n \in Names : WatchedEdit(n)
    \/ ToolScanRead
    \/ ToolScanSet
    \/ RegistryDebounceFire
    \/ RegistryDiscover
    \/ RegistryScanRead
    \/ RegistryScanSet

\* timers fire and the file-system calls that are awaited settle
SpecEventual ==
    /\ InitEventual /\ [][NextEventual]_vars
    /\ WF_vars(ToolScanRead) /\ WF_vars(ToolScanSet)
    /\ WF_vars(RegistryDebounceFire) /\ WF_vars(RegistryDiscover)
    /\ WF_vars(RegistryScanRead) /\ WF_vars(RegistryScanSet)

\* ------------------------------------------------------------------ SyncEngine, the periodic timer

\* the callers of startPeriodicSync(): main() in the background, and the
\* settings tool when syncIntervalHours is given
PeriodicStarters == {"main", "settings1", "settings2"}

\* one engine of a started process: this.timer, the interval timers that
\* are set (named after the call that set them), the position of every
\* startPeriodicSync() call, and whether shutdown() has run
InitPeriodic ==
    /\ disk = EmptyDisk
    /\ registry = RegistryOf(disk)
    /\ lockFile = emptyLock
    /\ syncing = FALSE
    /\ call = [c \in Callers |-> IdleCall]
    /\ inst = IdleInst
    /\ mgr = ReadyMgr
    /\ diffRun = NoDiffRun
    /\ direct = NoDirect /\ fetchRun = NoFetchRun /\ lockIo = NoLockIo /\ watch = NoWatch
    /\ discovery = NoDiscovery
    /\ periodic = [pc |-> "engine", timer |-> "null", intervals |-> {},
                   start |-> [s \in PeriodicStarters |-> "idle"], shutdown |-> FALSE]

PeriodicOnly ==
    UNCHANGED <<disk, registry, lockFile, syncing, call, inst, mgr, diffRun,
                direct, fetchRun, lockIo, watch, discovery>>

\* stopPeriodicSync(): clearInterval(this.timer) and this.timer = null
stopPeriodicSync(p) ==
    IF p.timer # "null"
    THEN [p EXCEPT !.intervals = @ \ {p.timer}, !.timer = "null"]
    ELSE p

\* startPeriodicSync() is called and awaits readSyncConfig; the settings
\* tool calls stopPeriodicSync() just before
StartPeriodicSync(s) ==
    /\ periodic.pc = "engine"
    /\ ~periodic.shutdown
    /\ periodic.start[s] = "idle"
    /\ periodic' = [(IF s = "main" THEN periodic ELSE stopPeriodicSync(periodic))
                      EXCEPT !.start[s] = "config"]
    /\ PeriodicOnly

\* readSyncConfig returns: nothing more when sync is disabled or the
\* interval is 0, else this.timer = setInterval(...)
StartPeriodicResumes(s) ==
    /\ periodic.pc = "engine"
    /\ periodic.start[s] = "config"
    /\ \E on \in BOOLEAN :
          periodic' = IF on
                      THEN [periodic EXCEPT !.start[s] = "done", !.timer = s,
                                            !.intervals = @ \cup {s}]
                      ELSE [periodic EXCEPT !.start[s] = "done"]
    /\ PeriodicOnly

\* SyncEngine.shutdown(), called by the signal handler of main()
EngineShutdown ==
    /\ periodic.pc = "engine"
    /\ ~periodic.shutdown
    /\ periodic' = [stopPeriodicSync(periodic) EXCEPT !.shutdown = TRUE]
    /\ PeriodicOnly

\* a later settings call, after an earlier call has returned
StartPeriodicReturns(s) ==
    /\ periodic.pc = "engine"
    /\ ~periodic.shutdown
    /\ s # "main"
    /\ periodic.start[s] = "done"
    /\ periodic' = [periodic EXCEPT !.start[s] = "idle"]
    /\ PeriodicOnly

NextPeriodic ==
    \/ \E s \in PeriodicStarters : StartPeriodicSync(s)
    \/ \E s \in PeriodicStarters : StartPeriodicResumes(s)
    \/ \E s \in PeriodicStarters : StartPeriodicReturns(s)
    \/ EngineShutdown

SpecPeriodic == InitPeriodic /\ [][NextPeriodic]_vars

\* ------------------------------------------------------------------ properties

\* a sync() call that acquired the flag and has not returned
InFlight(c) == call[c].pc \in {"config", "query", "diff", "install", "update", "remove", "write"}

\* a sync() call that has returned through the given exit
Returned(c, exit) == call[c].pc = "done" /\ call[c].exit = exit

\* the step taken is a step of call c
StepOf(c) == call'[c] # call[c]

ActionsOf(c) == call[c].report.actions

\* the risk level the scanner gives the files of a directory
RiskOnDisk(n) == RiskLevel(SumCrit(disk[n].files), SumWarn(disk[n].files))

\* C1: at most one sync run is in progress; a sync() call made while another
\* call is in flight returns at once with a report of exactly one error
\* action (errors = 1, every other counter 0), makes no query, changes
\* neither the disk, the registry, the lock nor the run in flight, and after
\* its return nothing of it remains pending.
C1_Rejected(c) ==
    /\ call'[c].pc = "done"
    /\ call'[c].i = 0
    /\ call'[c].discovered = <<>>
    /\ Len(call'[c].report.actions) = 1
    /\ call'[c].report.actions[1].type = "error"
    /\ call'[c].report.errors = 1
    /\ call'[c].report.installed = 0
    /\ call'[c].report.updated = 0
    /\ call'[c].report.removed = 0
    /\ call'[c].report.skipped = 0
    /\ call'[c].report.totalDiscovered = 0
    /\ disk' = disk /\ registry' = registry /\ lockFile' = lockFile
    /\ syncing' = syncing
    /\ \A o \in Callers \ {c} : call'[o] = call[o]

C1_Step ==
    \A c \in Callers :
        /\ (call[c].pc = "idle" /\ StepOf(c) /\ \E o \in Callers \ {c} : InFlight(o))
              => C1_Rejected(c)
        /\ (Returned(c, "rejected") /\ StepOf(c)) => call'[c] = IdleCall

C1_SingleFlight ==
    /\ [](Cardinality({c \in Callers : InFlight(c)}) <= 1)
    /\ [][C1_Step]_vars

C1_Witness ==
    \E c \in Callers, o \in Callers :
        Returned(c, "rejected") /\ call[o].pc = "install" /\ call[o].k = 2

\* C2: the risk gate, for every force: a critical scan always fails the
\* install; a medium or high scan fails it exactly when force is false; a
\* safe or low scan passes, and a low one adds a warning to the result.
C2_RiskGate ==
    LET gated == \/ inst.pc \in {"fetch", "write", "done"}
                 \/ inst.pc = "failed" /\ inst.failedAt
                       \in {"blocked-critical", "blocked-risk", "fetch"}
        blocked == inst.pc = "failed" /\ inst.failedAt \in {"blocked-critical", "blocked-risk"}
        level == inst.scan.riskLevel
    IN gated =>
         /\ level = "critical" => blocked
         /\ level \in {"medium", "high"} => (blocked <=> ~inst.force)
         /\ level \in {"safe", "low"} => ~blocked
         /\ inst.pc = "done" => (("low-risk" \in inst.result.warnings) <=> level = "low")
         /\ inst.pc = "done" => disk[inst.skillName] = Dir(inst.files)

C2_Witness ==
    /\ inst.pc = "failed"
    /\ inst.failedAt = "blocked-critical"
    /\ inst.force

\* C3: every (file name, content) pair that installSkill wrote was part of
\* the content the scan classified before the gate passed, and no file the
\* scanner classifies as critical is written.
C3_ScannedIsInstalled ==
    inst.pc = "done" =>
        \A i \in 1..Len(disk[inst.skillName].files) :
            LET file == disk[inst.skillName].files[i]
            IN /\ \E j \in 1..Len(inst.scan.scanned) : inst.scan.scanned[j] = file
               /\ file.content.crit = 0

C3_CriticalWritten ==
    /\ inst.pc = "done"
    /\ ~inst.force
    /\ inst.scan.riskLevel = "safe"
    /\ \E i \in 1..Len(disk[inst.skillName].files) :
          disk[inst.skillName].files[i].content.crit > 0

\* C4: an installSkill call that fails at the URL check, the name check, the
\* already-installed check or the risk gate leaves the packages directory
\* exactly as it was when the call was made.
C4_FailedInstallFrame ==
    (inst.pc = "failed"
        /\ inst.failedAt \in {"url", "name", "exists", "blocked-critical", "blocked-risk"})
    => disk = inst.diskBefore

C4_Witness ==
    /\ inst.pc = "failed"
    /\ inst.failedAt = "blocked-critical"
    /\ inst.force
    /\ inst.exists
    /\ disk[inst.skillName].present

\* a non-dry-run sync that ran to its end has just returned: the lock file
\* is the one it wrote and the disk is as it left it
Synced(c) == Returned(c, "completed") /\ ~call[c].dryRun

Ceiling(c) == RISK_LEVEL_ORDER(call[c].config.maxRiskLevel)

C6_NoHalfAppliedUpdate ==
    \A c \in Callers : Synced(c) =>
        \A i \in 1..Len(call[c].diff.toUpdate) :
            LET item == call[c].diff.toUpdate[i]
                entry == lockFile.skills[item.name]
                skipped == \E j \in 1..Len(ActionsOf(c)) :
                              /\ ActionsOf(c)[j].type = "skip-risk"
                              /\ ActionsOf(c)[j].skillName = item.name
            IN skipped =>
                 ~(/\ disk[item.name].present
                   /\ RISK_LEVEL_ORDER(RiskOnDisk(item.name)) > Ceiling(c)
                   /\ entry.present
                   /\ entry.installedHash # Hash(ContentsOf(disk[item.name].files))
                   /\ entry.upstreamUpdatedAt # item.updatedAt)

C6_HalfApplied ==
    \E c \in Callers :
        /\ Synced(c)
        /\ call[c].config.maxRiskLevel = "safe"
        /\ call[c].report.skipped = 1
        /\ Len(call[c].diff.toUpdate) = 1
        /\ RiskOnDisk(Str_n1) = "low"
        /\ lockFile.skills[Str_n1].riskLevel = "safe"
        /\ lockFile.skills[Str_n1].upstreamUpdatedAt = "t1"

\* the number of entries of a list that carry the URL
WithUrl(list, url) == Cardinality({i \in 1..Len(list) : list[i].githubUrl = url})

\* C7: for a discovered URL that is locked, whose marker changed and whose
\* registered hash differs from the locked installedHash: skip gives one
\* conflict and no update candidate, overwrite one update candidate and no
\* conflict, unmanage one conflict and no update candidate; a non-dry-run
\* sync under unmanage drops the lock entry, also from the lock file it
\* writes, and no step of the sync touches the files of a conflict.
C7_Diff(c) ==
    (call[c].pc = "diff" /\ StepOf(c) /\ call'[c].exit # "caught") =>
        \A i \in 1..Len(call[c].discovered) :
            LET disc == call[c].discovered[i]
                n == FindLocked(lockFile, disc.githubUrl)
                policy == call[c].config.conflictPolicy
                conflicts == WithUrl(call'[c].diff.conflicts, disc.githubUrl)
                updates == WithUrl(call'[c].diff.toUpdate, disc.githubUrl)
            IN (/\ n # <<>>
                /\ String(disc.updatedAt) # lockFile.skills[n].upstreamUpdatedAt
                /\ registry[n].present
                /\ registry[n].contentHash # lockFile.skills[n].installedHash)
               => /\ policy = "skip" => conflicts = 1 /\ updates = 0
                  /\ policy = "overwrite" => conflicts = 0 /\ updates = 1
                  /\ policy = "unmanage" =>
                        /\ conflicts = 1 /\ updates = 0
                        /\ call'[c].lock.skills[n].present = call[c].dryRun

C7_Frame(c) ==
    \A i \in 1..Len(call[c].diff.conflicts) :
        LET n == call[c].diff.conflicts[i].name
        IN /\ disk'[n] = disk[n]
           /\ (call[c].pc = "write" /\ StepOf(c)
                  /\ call[c].config.conflictPolicy = "unmanage")
                 => ~lockFile'.skills[n].present

C7_ConflictPolicy == [][\A c \in Callers : C7_Diff(c) /\ C7_Frame(c)]_vars

C7_Witness ==
    \E c \in Callers :
        /\ Synced(c)
        /\ call[c].config.conflictPolicy = "unmanage"
        /\ Len(call[c].diff.conflicts) = 1
        /\ ~lockFile.skills[call[c].diff.conflicts[1].name].present
        /\ disk[call[c].diff.conflicts[1].name].present

\* the actions of the given types that name the candidate
Narrates(actions, types, item) ==
    Cardinality({j \in 1..Len(actions) :
                    /\ actions[j].type \in types
                    /\ actions[j].skillName = item.name
                    /\ actions[j].githubUrl = item.githubUrl})

\* C8: no step of a sync with dryRun = true changes the lock file, the
\* packages directory or the registry, and its report holds one install,
\* update, remove or conflict action for exactly the candidates that
\* computeSyncDiff gives for the discovered set, the lock and the policy.
C8_Frame(c) ==
    ((call[c].dryRun \/ call'[c].dryRun) /\ StepOf(c)) =>
        lockFile' = lockFile /\ disk' = disk /\ registry' = registry

C8_Report(c) ==
    (call[c].pc = "diff" /\ call[c].dryRun /\ StepOf(c) /\ call'[c].exit # "caught") =>
        LET diff == computeSyncDiff(call[c].discovered, lockFile, call[c].config, registry)
            actions == call'[c].report.actions
            Exactly(list, types) ==
                /\ Count(actions, types) = Len(list)
                /\ \A i \in 1..Len(list) : Narrates(actions, types, list[i]) = 1
        IN /\ call'[c].pc = "done"
           /\ call'[c].report.dryRun
           /\ Exactly(diff.toInstall, {"install"})
           /\ Exactly(diff.toUpdate, {"update"})
           /\ Exactly(diff.toRemove, {"remove"})
           /\ Exactly(diff.conflicts, {"skip-conflict", "unmanage"})
           /\ call'[c].report.totalDiscovered = Len(call[c].discovered)

C8_DryRun == [][\A c \in Callers : C8_Frame(c) /\ C8_Report(c)]_vars

C8_Witness ==
    \E c \in Callers :
        /\ Returned(c, "completed")
        /\ call[c].dryRun
        /\ call[c].report.updated = 1
        /\ call[c].report.removed = 1
        /\ call[c].config.autoRemove
        /\ disk[Str_n2].present
        /\ lockFile.skills[Str_n2].present

\* the step appends between `least` and `most` actions to the call's list
Appends(c, least, most) ==
    LET before == call[c].actions
        after == call'[c].actions
    IN /\ Len(after) - Len(before) \in least..most
       /\ SubSeq(after, 1, Len(before)) = before

\* the candidates of the phase a call is in
Candidates(c) ==
    CASE call[c].pc = "install" -> call[c].diff.toInstall
      [] call[c].pc = "update" -> call[c].diff.toUpdate
      [] call[c].pc = "remove" -> call[c].diff.toRemove
      [] OTHER -> <<>>

Later(pc) ==
    CASE pc = "install" -> {"update", "remove", "write"}
      [] pc = "update" -> {"remove", "write"}
      [] OTHER -> {"write"}

\* C9: a step that handles one subscription or one candidate records its
\* failure as exactly one error action and goes on to the next subscription,
\* the next candidate or the next phase, never to the end of the call; the
\* sync that reaches its end returns a report that accounts for every
\* subscription failure, conflict and candidate, and the lock file it wrote
\* holds the entries of the installs that succeeded and none of the removed.
C9_Step(c) ==
    /\ (call[c].pc = "query" /\ StepOf(c)) =>
          /\ call'[c].i = call[c].i + 1
          /\ call'[c].pc = IF call[c].i < Len(activeSubscriptions(call[c].config))
                           THEN "query" ELSE "diff"
          /\ Appends(c, 0, 1)
          /\ Len(call'[c].actions) > Len(call[c].actions) =>
                /\ call'[c].actions[Len(call'[c].actions)].type = "error"
                /\ call'[c].discovered = call[c].discovered
    /\ (call[c].pc \in {"install", "update", "remove"} /\ StepOf(c)) =>
          /\ Appends(c, 1, 1)
          /\ call'[c].diff = call[c].diff
          /\ IF call[c].k < Len(Candidates(c))
             THEN call'[c].pc = call[c].pc /\ call'[c].k = call[c].k + 1
             ELSE call'[c].pc \in Later(call[c].pc)
          /\ call'[c].pc = "remove" => call[c].diff.toRemove # <<>>
          /\ call'[c].actions[Len(call'[c].actions)].type = "error" =>
                /\ disk' = disk
                /\ call'[c].lock = call[c].lock

C9_Report ==
    \A c \in Callers : Synced(c) =>
        LET actions == ActionsOf(c)
            diff == call[c].diff
        IN /\ call[c].i = Len(activeSubscriptions(call[c].config)) + 1
           /\ Len(actions) = Cardinality({j \in 1..Len(actions) :
                                            actions[j].reason = "Subscription failed"})
                             + Len(diff.conflicts) + Len(diff.toInstall)
                             + Len(diff.toUpdate) + Len(diff.toRemove)
           /\ call[c].report.errors = Count(actions, {"error"})
           /\ call[c].report.installed + call[c].report.updated + call[c].report.removed
                 + call[c].report.skipped + call[c].report.errors = Len(actions)
           /\ lockFile.skills = call[c].lock.skills
           /\ \A j \in 1..Len(actions) :
                 /\ actions[j].type = "install" => lockFile.skills[actions[j].skillName].present
                 /\ actions[j].type = "remove" => ~lockFile.skills[actions[j].skillName].present

C9_PartialFailure == []C9_Report /\ [][\A c \in Callers : C9_Step(c)]_vars

C9_Witness ==
    \E c \in Callers :
        /\ Synced(c)
        /\ \E i \in 1..Len(ActionsOf(c)), j \in 1..Len(ActionsOf(c)) :
              /\ i < j
              /\ ActionsOf(c)[i].type = "error"
              /\ ActionsOf(c)[i].reason = "Install failed"
              /\ ActionsOf(c)[j].type = "install"
              /\ lockFile.skills[ActionsOf(c)[j].skillName].present
        /\ ActionsOf(c)[1].reason = "Subscription failed"

\* C10: the flag is set exactly while a call that acquired it has not
\* returned, whatever exit the call takes, so a call made when no call is in
\* flight is never rejected; a rejected call leaves the flag of the run in
\* flight set.
C10_FlagReleased ==
    /\ syncing <=> \E c \in Callers : InFlight(c)
    /\ \A c \in Callers :
          Returned(c, "rejected") => syncing /\ \E o \in Callers \ {c} : InFlight(o)
    /\ \A c \in Callers :
          (call[c].pc = "done" /\ call[c].exit # "rejected") =>
              /\ call[c].exit \in {"disabled", "no-subscriptions", "completed", "caught"}
              /\ ~syncing

C10_Witness ==
    \E c \in Callers :
        /\ Returned(c, "caught")
        /\ call[c].discovered # <<>>
        /\ ~syncing

\* ------------------------------------------------------------------ computeSyncDiff

\* a direct call of computeSyncDiff has returned
Diffed == diffRun.pc = "returned"

\* some lock entry carries the URL
Carried(lock, url) ==
    \E n \in Names : lock.skills[n].present /\ lock.skills[n].githubUrl = url

\* C11: computeSyncDiff puts every discovered URL that no lock entry carries
\* into toInstall exactly once and never into toUpdate or conflicts, puts no
\* discovered URL that a lock entry carries into toInstall, and returns four
\* empty lists for an empty discovered set and an empty lock.
C11_NewIsInstall ==
    Diffed =>
        /\ \A i \in 1..Len(diffRun.discovered) :
              LET url == diffRun.discovered[i].githubUrl
              IN IF Carried(diffRun.lock, url)
                 THEN WithUrl(diffRun.diff.toInstall, url) = 0
                 ELSE /\ WithUrl(diffRun.diff.toInstall, url) = 1
                      /\ WithUrl(diffRun.diff.toUpdate, url) = 0
                      /\ WithUrl(diffRun.diff.conflicts, url) = 0
        /\ (diffRun.discovered = <<>> /\ diffRun.lock.skills = emptyLock.skills)
              => diffRun.diff = EmptyDiff

C11_Witness ==
    /\ Diffed
    /\ Len(diffRun.discovered) = 2
    /\ Carried(diffRun.lock, Url2)
    /\ ~Carried(diffRun.lock, Url1)
    /\ Len(diffRun.diff.toInstall) = 1
    /\ diffRun.diff.toInstall[1].githubUrl = Url1
    /\ Len(diffRun.diff.toUpdate) = 1

\* the lock entries whose URL is not a key of the discovered map
Undiscovered(discovered, lock) ==
    {n \in Names : /\ lock.skills[n].present
                   /\ \A i \in 1..Len(discovered) :
                         discovered[i].githubUrl # lock.skills[n].githubUrl}

\* C12: toRemove is empty when autoRemove is false; when autoRemove is true
\* it holds exactly the lock entries whose URL is not a key of the
\* discovered map, each once, whatever the conflict policy and the other
\* three lists.
C12_RemovalCandidates ==
    Diffed =>
        LET toRemove == diffRun.diff.toRemove
            gone == Undiscovered(diffRun.discovered, diffRun.lock)
        IN IF diffRun.config.autoRemove
           THEN /\ Len(toRemove) = Cardinality(gone)
                /\ \A n \in gone :
                      \E j \in 1..Len(toRemove) :
                         toRemove[j] = [name |-> n,
                                        githubUrl |-> diffRun.lock.skills[n].githubUrl]
           ELSE toRemove = <<>>

C12_Witness ==
    /\ Diffed
    /\ diffRun.config.autoRemove
    /\ diffRun.config.conflictPolicy = "skip"
    /\ Len(diffRun.diff.conflicts) = 1
    /\ Len(diffRun.diff.toInstall) = 0
    /\ Len(diffRun.diff.toRemove) = 1
    /\ diffRun.diff.toRemove[1].name = Str_n2

\* C13: for a discovered URL that a lock entry carries, the remote marker is
\* compared with the locked one as a string: equal strings give no candidate
\* of any kind for the URL; different strings, with a registered content
\* hash equal to the locked installedHash, give exactly one update candidate
\* and nothing else, under every conflict policy.
C13_MarkerComparison ==
    Diffed =>
        \A i \in 1..Len(diffRun.discovered), n \in Names :
            LET disc == diffRun.discovered[i]
                entry == diffRun.lock.skills[n]
                count(list) == WithUrl(list, disc.githubUrl)
            IN (entry.present /\ entry.githubUrl = disc.githubUrl) =>
                 /\ String(disc.updatedAt) = entry.upstreamUpdatedAt =>
                       /\ count(diffRun.diff.toInstall) = 0
                       /\ count(diffRun.diff.toUpdate) = 0
                       /\ count(diffRun.diff.conflicts) = 0
                       /\ count(diffRun.diff.toRemove) = 0
                 /\ (/\ String(disc.updatedAt) # entry.upstreamUpdatedAt
                     /\ registry[n].present
                     /\ registry[n].contentHash = entry.installedHash) =>
                       /\ count(diffRun.diff.toUpdate) = 1
                       /\ count(diffRun.diff.toInstall) = 0
                       /\ count(diffRun.diff.conflicts) = 0
                       /\ count(diffRun.diff.toRemove) = 0

C13_Witness ==
    /\ Diffed
    /\ diffRun.config.conflictPolicy = "unmanage"
    /\ Len(diffRun.discovered) = 2
    /\ diffRun.discovered[1].githubUrl = Url1
    /\ diffRun.discovered[1].updatedAt = StringValue("t1.0")
    /\ diffRun.discovered[2].updatedAt = NumberValue("t1")
    /\ diffRun.lock.skills[Str_n1].present
    /\ diffRun.lock.skills[Str_n1].githubUrl = Url1
    /\ diffRun.lock.skills[Str_n1].upstreamUpdatedAt = "t1"
    /\ diffRun.lock.skills[Str_n2].present
    /\ diffRun.lock.skills[Str_n2].upstreamUpdatedAt = "t1"
    /\ registry[Str_n1].present
    /\ registry[Str_n1].contentHash = diffRun.lock.skills[Str_n1].installedHash
    /\ Len(diffRun.diff.toUpdate) = 1
    /\ diffRun.diff.toUpdate[1].githubUrl = Url1
    /\ diffRun.diff.conflicts = <<>>

\* ------------------------------------------------------------------ discovery

\* the subscription ids discovery holds for a URL (none when it has no entry)
IdsOf(discovered, url) ==
    IF IndexOfUrl(discovered, url) = 0 THEN <<>>
    ELSE discovered[IndexOfUrl(discovered, url)].subIds

IdSet(ids) == {ids[j] : j \in 1..Len(ids)}

NoDuplicate(ids) == Cardinality(IdSet(ids)) = Len(ids)

\* discovery keeps one entry for a URL, and no id twice in its list
C14_OneEntry ==
    \A c \in Callers :
        \A i \in 1..Len(call[c].discovered) :
            /\ WithUrl(call[c].discovered, call[c].discovered[i].githubUrl) = 1
            /\ NoDuplicate(call[c].discovered[i].subIds)

\* a query step adds the id of the queried subscription to the list of
\* exactly the URLs its result holds, and leaves every other list alone
C14_Merge(c) ==
    (call[c].pc = "query" /\ StepOf(c)) =>
        LET id == activeSubscriptions(call[c].config)[call[c].i].id
            before == call[c].discovered
            after == call'[c].discovered
        IN \E skills \in SearchResults(id) \cup {<<>>} :
              \A url \in {Url1, Url2} :
                 IF WithUrl(skills, url) > 0
                 THEN IdSet(IdsOf(after, url)) = IdSet(IdsOf(before, url)) \cup {id}
                 ELSE IdsOf(after, url) = IdsOf(before, url)

\* the diff yields at most one candidate for a discovered URL, its install
\* or update candidate carries the whole id list, and a URL that no lock
\* entry carries gets its install candidate
C14_Candidates(c) ==
    (call[c].pc = "diff" /\ StepOf(c) /\ call'[c].exit # "caught") =>
        \A i \in 1..Len(call[c].discovered) :
            LET disc == call[c].discovered[i]
                diff == call'[c].diff
                carrying(list) ==
                    \A j \in 1..Len(list) :
                        list[j].githubUrl = disc.githubUrl => list[j].subIds = disc.subIds
            IN /\ WithUrl(diff.toInstall, disc.githubUrl)
                    + WithUrl(diff.toUpdate, disc.githubUrl)
                    + WithUrl(diff.conflicts, disc.githubUrl) <= 1
               /\ carrying(diff.toInstall)
               /\ carrying(diff.toUpdate)
               /\ ~Carried(lockFile, disc.githubUrl) =>
                     WithUrl(diff.toInstall, disc.githubUrl) = 1

Completes(c) ==
    /\ StepOf(c)
    /\ call[c].pc # "done"
    /\ call'[c].pc = "done"
    /\ call'[c].exit = "completed"
    /\ ~call'[c].dryRun

C15_Step ==
    /\ lockFile'.syncCount >= lockFile.syncCount
    /\ \A c \in Callers :
          Completes(c) => /\ lockFile'.syncCount = lockFile.syncCount + 1
                          /\ lockFile'.lastSyncRun = "set"
    /\ lockFile' # lockFile => \E c \in Callers : Completes(c)
    /\ \A c \in Callers :
          (/\ StepOf(c)
           /\ \/ call[c].dryRun
              \/ call'[c].dryRun
              \/ call'[c].exit \in {"rejected", "disabled", "no-subscriptions", "caught"})
          => lockFile' = lockFile

\* C15: the step that completes a non-dry-run sync persists the lock with
\* syncCount one higher and lastSyncRun set, and no other step of any sync
\* call writes the lock file: the persisted syncCount never decreases, and
\* dry-run, skipped, rejected and failed calls leave the lock file as it is.
C15_SyncCount == [][C15_Step]_vars

C15_Witness ==
    \E c \in Callers :
        /\ Synced(c)
        /\ lockFile.syncCount = MaxSyncCount
        /\ lockFile.lastSyncRun = "set"
        /\ call[c].report.errors > 0

\* C16: after a completed non-dry-run sync, the subscriptionIds of every
\* lock entry are among the ids of the subscriptions that discovered the
\* entry's URL in this cycle.
C16_SubscriptionIdsCurrent ==
    \A c \in Callers : Synced(c) =>
        \A n \in Names :
            lockFile.skills[n].present =>
                IdSet(lockFile.skills[n].subscriptionIds)
                    \subseteq IdSet(IdsOf(call[c].discovered, lockFile.skills[n].githubUrl))

\* the entry of n1 still names s1, which did not return the URL in this
\* cycle, while s2 discovered it with the marker the entry records
C16_StaleId ==
    \E c \in Callers :
        /\ Synced(c)
        /\ lockFile.skills[Str_n1].present
        /\ lockFile.skills[Str_n1].githubUrl = Url1
        /\ lockFile.skills[Str_n1].subscriptionIds = <<"s1">>
        /\ lockFile.skills[Str_n1].upstreamUpdatedAt = "t1"
        /\ IdsOf(call[c].discovered, Url1) = <<"s2">>
        /\ String(call[c].discovered[IndexOfUrl(call[c].discovered, Url1)].updatedAt) = "t1"

\* C17: a successful manual uninstall of a sync-managed package removes its
\* lock entry.
C17_UninstallDropsLockEntry ==
    [][\A n \in Names :
          (ToolUninstall(n) /\ lockFile.skills[n].present) =>
              ~lockFile'.skills[n].present]_vars

\* the names of a list of the summary
Listed(list) == {list[k] : k \in 1..Len(list)}

\* the names syncRegistry found on disk
OnDisk == Listed(mgr.resync.onDisk)

\* the names syncRegistry has looked at so far
Visited == {mgr.resync.onDisk[k] : k \in 1..(mgr.resync.i - 1)}

\* the four lists of the summary hold no name twice, within or across lists
Disjoint ==
    LET me == mgr.resync
        all == me.added \o me.removed \o me.modified \o me.unchanged
    IN \A j, k \in 1..Len(all) : all[j] = all[k] => j = k

\* the lists of the summary against the two name sets taken at the start
Classified ==
    LET me == mgr.resync
    IN me.pc \in {"scan", "done"} =>
          /\ Disjoint
          /\ Listed(me.removed) = me.inRegistry \ OnDisk
          /\ Listed(me.added) \subseteq (OnDisk \ me.inRegistry) \cap Visited
          /\ Listed(me.modified) \cup Listed(me.unchanged) =
                (OnDisk \cap me.inRegistry) \cap Visited

\* what one step of syncRegistry does to the registry entry of the name it
\* classifies
ClassifiedStep ==
    LET me == mgr.resync
        name == me.onDisk[me.i]
        fresh == scanLocalSkill(disk, name)
        lists(r) == <<r.added, r.removed, r.modified, r.unchanged>>
    IN /\ ResyncDiscover =>
             \A n \in Listed(mgr'.resync.removed) : ~registry'[n].present
       /\ ResyncScan =>
             /\ name \notin me.inRegistry =>
                   \/ /\ mgr'.resync.added = Append(me.added, name)
                      /\ registry'[name] = fresh
                   \/ /\ lists(mgr'.resync) = lists(me)
                      /\ registry' = registry
             /\ name \in me.inRegistry =>
                   /\ registry'[name] \in {fresh, registry[name]}
                   /\ mgr'.resync.modified = Append(me.modified, name) <=>
                         /\ registry[name].present
                         /\ registry'[name] = fresh
                         /\ fresh.contentHash # registry[name].contentHash

\* C18: syncRegistry lists a name only in the registry under removed and
\* drops it; a name only on disk is listed under added and registered when
\* its scan succeeds, and is in no list and not registered by the scan when
\* it fails; a name in both is listed under modified exactly when its fresh
\* hash differs from the hash of the entry it had, and under unchanged
\* otherwise; no name is in two lists.
C18_Classification == []Classified /\ [][ClassifiedStep]_vars

\* a resync has returned with a changed package under modified and a new
\* directory whose scan failed in no list
C18_Witness ==
    LET me == mgr.resync
    IN /\ me.pc = "done"
       /\ me.modified # <<>>
       /\ \E n \in OnDisk \ me.inRegistry : n \notin Listed(me.added)

\* C18 (as stated): when syncRegistry returns, every name that was only on
\* disk is listed under added, beside the classification of the others.
C18_EveryNewNameAdded ==
    /\ Classified
    /\ mgr.resync.pc = "done" =>
          (OnDisk \ mgr.resync.inRegistry) \subseteq Listed(mgr.resync.added)

\* an initialize call has not returned yet
Initializing == mgr.init.pc \in {"discover", "scan"}

\* what the steps of initialize do: the one that returns sets initialized,
\* a scan that fails leaves the registry as it was and goes on, a scan that
\* succeeds registers the package
InitializeStep ==
    LET me == mgr.init
        name == me.names[me.i]
    IN /\ (Initializing /\ mgr'.init.pc = "done") => mgr'.initialized
       /\ InitializeScan =>
             /\ mgr'.init.pc = "done" <=> me.i = Len(me.names)
             /\ IF name \in mgr'.init.failed
                THEN registry' = registry
                ELSE /\ registry'[name].present
                     /\ registry'[name] = scanLocalSkill(disk, name)

\* C19: every initialize() call returns with initialized = true, whether
\* discovery, scans or starting the watch fail; a failed scan registers
\* nothing and every successful scan registers its package.
C19_InitializeTerminates ==
    /\ [][InitializeStep]_vars
    /\ Initializing ~> (mgr.init.pc = "done" /\ mgr.initialized)

\* initialize has returned after a failed scan and a failed watch: the
\* manager is initialized, the failed package is not registered and the
\* other one is
C19_Witness ==
    /\ mgr.init.pc = "done"
    /\ mgr.initialized
    /\ ~mgr.watching
    /\ mgr.init.failed # {}
    /\ \A n \in mgr.init.failed : ~registry[n].present
    /\ \E n \in Names \ mgr.init.failed : registry[n].present

\* the manager has been shut down and not initialized again
ShutDown == ~mgr.initialized

\* what shutdown() leaves behind, and what it leaves alone
ShutdownStep ==
    Shutdown =>
       /\ registry' = EmptyRegistry
       /\ ~mgr'.initialized
       /\ mgr'.watcher = "null"
       /\ ~mgr'.watching
       /\ ~mgr'.debounceTimer
       /\ inst' = inst /\ call' = call /\ syncing' = syncing
       /\ mgr'.resync = mgr.resync /\ mgr'.init = mgr.init
       /\ disk' = disk /\ lockFile' = lockFile

\* once shut down, no timer is set and no resync is started
NoResyncStarted ==
    ShutDown =>
       /\ ~mgr'.debounceTimer
       /\ mgr.resync.pc = "idle" => mgr'.resync.pc = "idle"

\* C20: shutdown() leaves the registry empty, initialized false, the watch
\* handle closed and no debounce timer pending; a resync that was only
\* scheduled is never started afterwards; an install in flight, like a resync
\* or an initialize in flight, keeps its state and goes on.
C20_Shutdown ==
    /\ [](ShutDown => (~mgr.debounceTimer /\ ~mgr.watching /\ mgr.watcher = "null"))
    /\ [][ShutdownStep /\ NoResyncStarted]_vars

\* after a shutdown the install that was in flight has returned and
\* registered its package, and no resync is running or scheduled
C20_Witness ==
    /\ ShutDown
    /\ inst.pc = "idle"
    /\ registry[Str_n1].present
    /\ mgr.resync.pc = "idle"
    /\ ~mgr.debounceTimer

\* ------------------------------------------------------------------ requests

\* the hosts the call has sent a request to so far
Requested == {fetchRun.requests[k] : k \in 1..Len(fetchRun.requests)}

\* a source URL that validateGithubUrl rejects causes no request and no
\* step beyond the validation
RejectedEarly ==
    ~validateGithubUrl(fetchRun.url) =>
       /\ fetchRun.requests = <<>>
       /\ fetchRun.pc \in {"called", "returned", "failed"}
       /\ fetchRun.files = <<>>

\* a turn of the loop on an entry whose download host is not allow-listed,
\* unparsable or null requests nothing and keeps no file
SkippedUnrequested ==
    (FetchEntry /\ fetchRun.remote.entries[fetchRun.i].host \notin ALLOWED_DOWNLOAD_HOSTS) =>
       /\ fetchRun'.requests = fetchRun.requests
       /\ fetchRun'.files = fetchRun.files

\* C21: every request of fetch-and-scan and of the installer's fetch goes
\* to the host of the contents API, to the host of the raw file, or to a
\* download host on ALLOWED_DOWNLOAD_HOSTS; a source URL that is not https,
\* not on ALLOWED_GITHUB_HOSTS or not owner/repo/tree/ref/path is rejected
\* before any request; an entry on another host, or with an unparsable
\* download URL, is skipped without a request.
C21_RequestHosts ==
    /\ [](Requested \subseteq {ApiHost, RawHost} \cup ALLOWED_DOWNLOAD_HOSTS)
    /\ []RejectedEarly
    /\ [][SkippedUnrequested]_vars

\* the listing named a file on another host before an allowed one: the API
\* and the allowed download were requested, one file was kept
C21_Witness ==
    /\ fetchRun.pc = "returned"
    /\ Len(fetchRun.remote.entries) = 2
    /\ fetchRun.remote.entries[1].host = "evil.example"
    /\ fetchRun.requests = <<ApiHost, RawHost>>
    /\ Len(fetchRun.files) = 1

\* C21 (as stated): every request goes to a host on the two allow-lists of
\* the code, ALLOWED_GITHUB_HOSTS and ALLOWED_DOWNLOAD_HOSTS.
C21_OnlyAllowListedHosts ==
    Requested \subseteq ALLOWED_GITHUB_HOSTS \cup ALLOWED_DOWNLOAD_HOSTS

\* ------------------------------------------------------------------ package limits

\* the cumulative length of the contents the call scanned or returned
RECURSIVE TotalLength(_)
TotalLength(files) ==
    IF files = <<>> THEN 0 ELSE Head(files).length + TotalLength(Tail(files))

\* C24: on every response shape a call scans or returns at most MAX_FILES
\* files and at most MAX_TOTAL_SIZE of content, and a call that stopped at a
\* limit reports it.
C24_PackageLimits ==
    fetchRun.pc = "returned" =>
       /\ Len(fetchRun.files) <= MAX_FILES
       /\ TotalLength(fetchRun.files) <= MAX_TOTAL_SIZE
       /\ fetchRun.stopped =>
             fetchRun.errors \cap {"file-limit", "total-size-limit"} # {}

\* the contents API answered with one file longer than MAX_TOTAL_SIZE and
\* the file was scanned, or returned for writing, whole
C24_OversizedSingleFile ==
    /\ fetchRun.pc = "returned"
    /\ fetchRun.remote.api = "object"
    /\ Len(fetchRun.files) = 1
    /\ fetchRun.files[1].length > MAX_TOTAL_SIZE

\* ------------------------------------------------------------------ scan results

\* fetchAndScanSkill has returned a result
Scanned == fetchRun.pc = "returned" /\ fetchRun.fn = "fetchAndScanSkill"

\* C28: every result fetchAndScanSkill returns has the level its threats
\* give (a critical threat gives critical, otherwise the warning count
\* decides) and is safe exactly without a critical threat and with fewer
\* than 3 warnings.
C28_ScanResultInvariant ==
    Scanned =>
       LET r == fetchRun.result
       IN /\ r.riskLevel = RiskLevel(r.criticalCount, r.warningCount)
          /\ r.safe = (r.criticalCount = 0 /\ r.warningCount < MediumWarnings)

\* the result for a rejected URL: one critical threat under the level high
C28_InvalidUrlResult ==
    /\ Scanned
    /\ ~validateGithubUrl(fetchRun.url)
    /\ fetchRun.result.criticalCount = 1
    /\ fetchRun.result.riskLevel = "high"

\* ------------------------------------------------------------------ risk levels

\* C25: the riskLevel and the safe flag of a scanSkillContent result follow
\* from its counts of critical and warning threats alone (any critical:
\* critical; else 5+ warnings high, 3-4 medium, 1-2 low, 0 safe; safe
\* exactly without critical and under 3 warnings), and no level decreases
\* when a count grows.
C25_RiskLevel ==
    direct.fn = "scanSkillContent" =>
       LET r == direct.result
           c == r.criticalCount
           w == r.warningCount
           level == IF c >= 1 THEN "critical"
                    ELSE IF w >= 5 THEN "high"
                    ELSE IF w >= 3 THEN "medium"
                    ELSE IF w >= 1 THEN "low"
                    ELSE "safe"
       IN /\ c = direct.content.crit /\ w = direct.content.warn
          /\ r.riskLevel = level
          /\ r.safe = (c = 0 /\ w < 3)
          /\ r.riskLevel = "low" => r.safe
          /\ \A more \in ScanInputs :
                (more.crit >= c /\ more.warn >= w) =>
                   RISK_LEVEL_ORDER(scanSkillContent(more).riskLevel)
                      >= RISK_LEVEL_ORDER(r.riskLevel)

\* a content with a single warning was scanned: low and safe
C25_Witness ==
    /\ direct.fn = "scanSkillContent"
    /\ direct.content = OneWarning
    /\ direct.result.riskLevel = "low"
    /\ direct.result.safe

\* ------------------------------------------------------------------ path traversal

\* an install or an uninstall was called with a traversal name
TraversalCall ==
    direct.fn \in {"installSkill", "uninstallSkill"} /\ direct.name \in TraversalNames

\* a direct call that failed left the packages directory as it was
FailedCallKeepsDisk ==
    (direct'.fn \in {"installSkill", "uninstallSkill"} /\ ~direct'.ok) => disk' = disk

\* C22: safeSkillPath fails with the traversal error for "../x", "../../x"
\* and "../etc/passwd" and returns a path under the packages directory when
\* it succeeds; install and uninstall reject such a name as an invalid name
\* (install, a bad URL first), before safeSkillPath, and leave the packages
\* directory as it was.
C22_Traversal ==
    /\ [](direct.fn = "safeSkillPath" =>
             /\ direct.name \in TraversalNames => direct.error = "traversal"
             /\ direct.ok =>
                   /\ Len(direct.path) > Len(SKILLS_DIR)
                   /\ SubSeq(direct.path, 1, Len(SKILLS_DIR)) = SKILLS_DIR)
    /\ [](TraversalCall =>
             (~direct.ok /\ direct.error \in {"url", "name", "invalid-name"}))
    /\ [][FailedCallKeepsDisk]_vars

\* uninstallSkill("../etc/passwd") has failed on packages that are still
\* there
C22_Witness ==
    /\ direct.fn = "uninstallSkill"
    /\ direct.name = Str_etcPasswd
    /\ ~direct.ok
    /\ disk[Str_n1].present

\* C22 (as stated): install and uninstall fail with the traversal error for
\* a traversal name, as safeSkillPath does.
C22_TraversalError ==
    (TraversalCall \/ (direct.fn = "safeSkillPath" /\ direct.name \in TraversalNames))
       => direct.error = "traversal"

\* ------------------------------------------------------------------ uninstall twice

\* an uninstall that succeeds removes a directory that was there, and the
\* same call made again at once fails with not-found and changes nothing
UninstallThenNotFound ==
    \A name \in PathInputs :
       (UninstallCall(name) /\ direct'.ok) =>
          /\ disk[name].present
          /\ ~disk'[name].present
          /\ \A other \in Names \ {name} : disk'[other] = disk[other]
          /\ uninstallSkill(disk', name) =
                [ok |-> FALSE, error |-> "not-found", disk |-> disk']

\* C23: uninstallSkill removes the directory of an installed package; a
\* second uninstallSkill of the same name right after it fails with
\* not-found; an invalid name fails as invalid and nothing is touched.
C23_Uninstall ==
    /\ [][UninstallThenNotFound /\ FailedCallKeepsDisk]_vars
    /\ []((direct.fn = "uninstallSkill" /\ ~validateSkillName(direct.name)) =>
             (~direct.ok /\ direct.error = "invalid-name"))

\* uninstallSkill of n1 has failed with not-found beside n2, which is
\* still installed
C23_Witness ==
    /\ direct.fn = "uninstallSkill"
    /\ direct.name = Str_n1
    /\ direct.error = "not-found"
    /\ ~disk[Str_n1].present
    /\ disk[Str_n2].present

\* ------------------------------------------------------------------ the two content hashes

\* C27: the hash the registry computes by scanning a package right after
\* its install equals the hash the installer returned for it (the lock's
\* installedHash), for any directory enumeration order.
C27_SameHash ==
    [][(/\ direct.fn = "installSkill" /\ direct.ok
        /\ direct'.fn = "scanLocalSkill" /\ direct'.name = direct.name)
          => direct'.contentHash = direct.result.contentHash]_vars

\* the scan of a package of two files gave another hash than the installer
\* computes over the same files in the order it wrote them
C27_OrderChangesHash ==
    /\ direct.fn = "scanLocalSkill"
    /\ Len(disk[direct.name].files) = 2
    /\ registry[direct.name].contentHash = direct.contentHash
    /\ direct.contentHash # Hash(ContentsOf(disk[direct.name].files))

\* ------------------------------------------------------------------ reading the lock and the config

\* a stored file that holds a well-formed version-1 object
WellFormed(file) == file.kind = "object" /\ file.version = 1 /\ file.body = "valid"

\* C26: readSyncConfig and readSyncLock never raise, and give the default
\* config or the empty lock for a file that is missing, is not JSON, or
\* does not have the expected structure.
C26_ReadersFallBack ==
    /\ direct.fn = "readSyncLock" =>
          /\ ~direct.result.raised
          /\ ~WellFormed(direct.file) => direct.result.value = "emptyLock"
    /\ direct.fn = "readSyncConfig" =>
          /\ ~direct.result.raised
          /\ ~WellFormed(direct.file) => direct.result.value = "defaultConfig"

\* readSyncLock has thrown on a lock file that is not JSON
C26_UnparseableRaises ==
    /\ direct.fn = "readSyncLock"
    /\ direct.file.kind = "unparseable"
    /\ direct.result.raised

\* ------------------------------------------------------------------ lock writes

\* C29: what is under the lock path, and what any reader has read from
\* it, is always a whole lock text, the previous one or the new one, for
\* every interleaving of the writers' steps.
C29_NeverPartial ==
    /\ lockIo.lock.state = "whole"
    /\ lockIo.seen.state \in {"absent", "whole"}

\* a reader has read a truncated lock file while a writer that had written
\* its whole text completed its rename
C29_PartialObserved ==
    /\ lockIo.seen.state = "part"
    /\ \E x \in LockWriters : lockIo.w[x].pc = "done"

\* ------------------------------------------------------------------ debounce

\* a watch event is delivered
WatchEventStep == watch'.nextId # watch.nextId

\* a resync is started
ResyncStartStep == watch'.resyncs = watch.resyncs + 1

\* C30: at most one debounce timer is pending; a watch event leaves exactly
\* the timer it starts, due a full debounce period later; a resync starts
\* only when a full debounce period has passed since the last event, and
\* it is the only one since that event; every pending timer leads to the
\* one resync of its burst.
C30_Debounce ==
    /\ [](Cardinality(watch.timers) <= 1)
    /\ [][WatchEventStep =>
             watch'.timers = {[id |-> watch'.debounceTimer,
                               due |-> watch.now + WATCH_DEBOUNCE_MS]}]_vars
    /\ [][ResyncStartStep =>
             /\ watch.now - watch.lastEvent >= WATCH_DEBOUNCE_MS
             /\ watch.resyncs = 0
             /\ watch'.timers = {}]_vars
    /\ [](watch.resyncs <= 1)
    /\ (watch.timers # {}) ~> (watch.timers = {} /\ watch.resyncs = 1)

\* a burst of three events, each less than the debounce period after the
\* one before, has started its one resync
C30_Witness ==
    /\ watch.burst = 3
    /\ watch.resyncs = 1
    /\ watch.timers = {}

\* ------------------------------------------------------------------ phase order

\* the phase an action of the report was recorded in
PhaseOfAction(a) ==
    IF a.reason = "Subscription failed" THEN 1
    ELSE IF a.type \in {"unmanage", "skip-conflict"} THEN 2
    ELSE IF a.reason \in {"Installed", "Install failed", "Risk level exceeds max",
                          "New skill from subscription"} THEN 3
    ELSE IF a.reason \in {"Updated", "Update failed", "Updated version risk exceeds max",
                          "Upstream changed"} THEN 4
    ELSE 5

\* the phase a position of sync() belongs to
PhaseOfPc(pc) ==
    CASE pc = "install" -> 3
      [] pc = "update" -> 4
      [] pc = "remove" -> 5
      [] pc \in {"write", "done"} -> 6
      [] OTHER -> 0

\* the actions recorded so far are in phase order
InPhaseOrder(actions) ==
    \A i, j \in 1..Len(actions) :
       i < j => PhaseOfAction(actions[i]) <= PhaseOfAction(actions[j])

\* the number of actions a phase has recorded
PhaseCount(actions, phase) ==
    Cardinality({i \in 1..Len(actions) : PhaseOfAction(actions[i]) = phase})

\* a call that is in phases 4 to 7 has recorded every conflict, and dropped
\* the lock entries of an unmanage policy, has finished every earlier phase
\* and has recorded nothing of a later one
PhasesDone(c) ==
    LET me == call[c]
        at == PhaseOfPc(me.pc)
        done(phase, list) ==
            /\ at > phase => PhaseCount(me.actions, phase) = Len(list)
            /\ at = phase => PhaseCount(me.actions, phase) = me.k - 1
            /\ (at # 0 /\ at < phase) => PhaseCount(me.actions, phase) = 0
    IN (at # 0 /\ me.exit \in {"", "completed"} /\ ~me.dryRun) =>
          /\ PhaseCount(me.actions, 2) = Len(me.diff.conflicts)
          /\ (me.config.conflictPolicy = "unmanage" /\ at = 3 /\ me.k = 1) =>
                \A i \in 1..Len(me.diff.conflicts) :
                   ~me.lock.skills[me.diff.conflicts[i].name].present
          /\ done(3, me.diff.toInstall)
          /\ done(4, me.diff.toUpdate)
          /\ done(5, me.diff.toRemove)

\* C31: the phases of a sync run in the order conflicts, installs, updates,
\* removals: every phase is complete before the next one starts, and the
\* actions of the report are in that order, after the errors of the
\* subscription queries.
C31_PhaseOrder ==
    /\ [](\A c \in Callers : InPhaseOrder(call[c].actions) /\ PhasesDone(c))
    /\ [][\A c \in Callers :
             (PhaseOfPc(call[c].pc) # 0 /\ call'[c].pc # "idle") =>
                PhaseOfPc(call'[c].pc) >= PhaseOfPc(call[c].pc)]_vars

\* a sync has returned a report with a query error, then an install, then
\* a removal
C31_Witness ==
    \E c \in Callers :
       /\ call[c].pc = "done"
       /\ call[c].exit = "completed"
       /\ ~call[c].dryRun
       /\ Len(call[c].report.actions) = 3
       /\ call[c].report.actions[1].reason = "Subscription failed"
       /\ call[c].report.actions[2].type = "install"
       /\ call[c].report.actions[3].type = "remove"

\* ------------------------------------------------------------------ paced queries

\* the positions of the log at which a query was started
QueriesAt(log) == {k \in 1..Len(log) : log[k].kind = "query"}

\* C32: a sync queries every enabled subscription once and no disabled
\* one; every query but the first starts right after a pacing delay,
\* whether the query before it returned or threw; nothing is awaited
\* after the last query.
C32_PacedQueries ==
    LET log == discovery.log
    IN /\ \A k \in QueriesAt(log) :
             /\ log[k].id \in discovery.enabled
             /\ \A j \in QueriesAt(log) : log[j].id = log[k].id => j = k
             /\ k > 1 => log[k - 1].kind = "delay"
       /\ discovery.pc = "done" =>
             /\ {log[k].id : k \in QueriesAt(log)} = discovery.enabled
             /\ log # <<>> => log[Len(log)].kind # "delay"

\* the query of s2 was started right after the query of s1 threw
C32_NoDelayAfterFailure ==
    \E k \in 1..Len(discovery.log) - 1 :
       /\ discovery.log[k] = Event("threw", "s1")
       /\ discovery.log[k + 1] = Event("query", "s2")

\* ------------------------------------------------------------------ long lines and first matches

\* the threats that carry line number i
ThreatsOfLine(threats, i) == {k \in 1..Len(threats) : threats[k].line = i}

\* the threats of a catalog pattern
ThreatsOfPattern(threats, pattern) ==
    {k \in 1..Len(threats) :
        threats[k].pattern = pattern.source /\ threats[k].severity = pattern.severity}

\* the lines a pattern is evaluated on and matches
MatchingLines(lines, pattern) ==
    {i \in 1..Len(lines) : ~lines[i].long /\ pattern.source \in lines[i].matches}

\* C33: a line longer than the maximum gets exactly one excessive-line-
\* length warning with its 1-based number and no other threat carries
\* that number; a catalog pattern gives at most one threat, with the
\* number of the first line it matches.
C33_LongLinesAndFirstMatch ==
    (direct.fn = "scanSkillContent(lines)" /\ direct.returned) =>
       LET lines == direct.lines
           threats == direct.threats
       IN /\ \A i \in 1..Len(lines) :
                lines[i].long =>
                   /\ Cardinality(ThreatsOfLine(threats, i)) = 1
                   /\ \A k \in ThreatsOfLine(threats, i) :
                         /\ threats[k].pattern = "excessive-line-length"
                         /\ threats[k].severity = "warning"
          /\ \A p \in 1..Len(CatalogPatterns) :
                LET found == ThreatsOfPattern(threats, CatalogPatterns[p])
                    at == MatchingLines(lines, CatalogPatterns[p])
                IN /\ Cardinality(found) <= 1
                   /\ (found = {}) = (at = {})
                   /\ \A k \in found : \A i \in at : threats[k].line <= i
                   /\ \A k \in found : threats[k].line \in at

\* a content was scanned whose first line is long and matches every
\* pattern, and whose second and third lines both match the obfuscation
\* pattern
C33_Witness ==
    /\ direct.fn = "scanSkillContent(lines)"
    /\ direct.returned
    /\ Len(direct.lines) = 3
    /\ direct.lines[1].long /\ direct.lines[1].matches = {"curl-pipe-sh", "atob", "child_process"}
    /\ ~direct.lines[2].long /\ direct.lines[2].matches = {"atob"}
    /\ ~direct.lines[3].long /\ direct.lines[3].matches = {"atob"}
    /\ Len(direct.threats) = 2

\* ------------------------------------------------------------------ unmanaged packages

\* a running sync has reported the install of name
InstalledByRun(name) ==
    \E c \in Callers :
       /\ call[c].pc \notin {"idle", "done"}
       /\ \E k \in 1..Len(call[c].actions) :
             call[c].actions[k].type = "install" /\ call[c].actions[k].skillName = name

\* C35: a sync changes or removes an existing package directory only when
\* the package has an entry in the lock the sync read, or the same run
\* installed it.
C35_UnmanagedUntouched ==
    [][\A name \in Names :
          (disk[name].present /\ disk'[name] # disk[name]) =>
             (lockFile.skills[name].present \/ InstalledByRun(name))]_vars

\* a sync has ended with a failed install of n1, whose directory is on
\* disk with the content it had and has no lock entry
C35_Witness ==
    \E c \in Callers :
       /\ call[c].pc = "done"
       /\ call[c].exit = "completed"
       /\ ~call[c].dryRun
       /\ \E k \in 1..Len(call[c].report.actions) :
             /\ call[c].report.actions[k].reason = "Install failed"
             /\ call[c].report.actions[k].skillName = Str_n1
       /\ disk[Str_n1] = SyncedDir(Clean)
       /\ ~lockFile.skills[Str_n1].present
       /\ ~call[c].lock.skills[Str_n1].present

\* ------------------------------------------------------------------ failed queries and removals

\* C36: with autoRemove, a sync in which a subscription query failed
\* removes no package: nothing is uninstalled because the results of the
\* failed query are missing from the discovered set.
C36_FailedQueryRemovesNothing ==
    \A c \in Callers :
       (call[c].pc = "done" /\ call[c].exit = "completed" /\ ~call[c].dryRun
          /\ \E k \in 1..Len(call[c].report.actions) :
                call[c].report.actions[k].reason = "Subscription failed")
       => call[c].report.removed = 0

\* the query of s1 failed and the sync removed n1, which s1 had claimed:
\* it is gone from the disk and from the lock
C36_RemovedAfterFailedQuery ==
    \E c \in Callers :
       /\ call[c].pc = "done" /\ call[c].exit = "completed" /\ ~call[c].dryRun
       /\ call[c].config.autoRemove
       /\ Len(call[c].report.actions) = 2
       /\ call[c].report.actions[1].reason = "Subscription failed"
       /\ call[c].report.actions[2].type = "remove"
       /\ call[c].report.actions[2].skillName = Str_n1
       /\ call[c].discovered = <<>>
       /\ ~disk[Str_n1].present
       /\ ~lockFile.skills[Str_n1].present

\* ------------------------------------------------------------------ convergence

\* the sync of call record me ran to its end and every candidate was
\* installed, updated or removed: no error, no risk skip, no conflict skip
CleanRun(me) ==
    /\ me.pc = "done" /\ me.exit = "completed" /\ ~me.dryRun
    /\ \A k \in 1..Len(me.report.actions) :
          me.report.actions[k].type \in {"install", "update", "remove"}

\* the next sync has computed its diff from the same policy and the same
\* search results as the sync before it
SameInputs(first, next) ==
    /\ next.pc \in {"install", "update", "remove", "write", "done"}
    /\ next.exit \in {"", "completed"}
    /\ next.config = first.config
    /\ next.discovered = first.discovered
    /\ \A k \in 1..Len(next.actions) : next.actions[k].reason # "Subscription failed"

\* C34: after a sync in which every install and update succeeded and
\* nothing was skipped, the next sync over the same search results, policy
\* and disk computes an empty diff and reports no action, also when two
\* discovered URLs infer the same package name.
C34_Converges ==
    (CleanRun(call["tool"]) /\ SameInputs(call["tool"], call["timer"])) =>
       /\ call["timer"].diff = EmptyDiff
       /\ call["timer"].pc = "done" => call["timer"].report.actions = <<>>

\* the first sync installed and updated under the name n1 from two URLs
\* without an error; the second sync, over the same results, has both
\* URLs in its diff again
C34_NamesakesNeverSettle ==
    /\ CleanRun(call["tool"]) /\ SameInputs(call["tool"], call["timer"])
    /\ Len(call["tool"].discovered) = 2
    /\ call["tool"].report.installed = 1 /\ call["tool"].report.updated = 1
    /\ Len(call["timer"].diff.toInstall) = 1
    /\ call["timer"].diff.toInstall[1].githubUrl = Url1
    /\ Len(call["timer"].diff.toUpdate) = 1

\* ------------------------------------------------------------------ lock and disk at the end of a sync

\* the sync of caller c has just ended
JustEnded(c) ==
    /\ call[c].pc = "done" /\ call[c].exit = "completed" /\ ~call[c].dryRun
    /\ c = "tool" => call["timer"].pc = "idle"

\* C37: at the end of a sync every package reported installed or updated
\* is on disk and has a lock entry under its directory name with the URL it
\* was fetched from, and every package reported removed is neither on disk
\* nor in the lock, also when an install candidate and a removal candidate
\* share a package name.
C37_LockAndDiskAgree ==
    \A c \in Callers :
       JustEnded(c) =>
          \A k \in 1..Len(call[c].report.actions) :
             LET a == call[c].report.actions[k]
             IN /\ a.type \in {"install", "update"} =>
                      /\ disk[a.skillName].present
                      /\ lockFile.skills[a.skillName].present
                      /\ lockFile.skills[a.skillName].githubUrl = a.githubUrl
                /\ a.type = "remove" =>
                      /\ ~disk[a.skillName].present
                      /\ ~lockFile.skills[a.skillName].present

\* a sync reported n1 installed from the second repository and n1 removed;
\* n1 is neither on disk nor in the lock
C37_InstalledThenRemoved ==
    /\ JustEnded("tool")
    /\ Len(call["tool"].report.actions) = 2
    /\ call["tool"].report.actions[1].type = "install"
    /\ call["tool"].report.actions[1].skillName = Str_n1
    /\ call["tool"].report.actions[1].githubUrl = UrlNamesake
    /\ call["tool"].report.actions[2].type = "remove"
    /\ call["tool"].report.actions[2].skillName = Str_n1
    /\ ~disk[Str_n1].present
    /\ ~lockFile.skills[Str_n1].present

\* ------------------------------------------------------------------ one periodic timer

\* no startPeriodicSync() call is waiting for the config
NoStartInFlight == \A s \in PeriodicStarters : periodic.start[s] # "config"

\* C39: an engine has at most one interval timer set at any time, and
\* after shutdown() has returned and every startPeriodicSync() call in
\* flight has finished no timer is left.
C39_OneTimer ==
    /\ Cardinality(periodic.intervals) <= 1
    /\ (periodic.shutdown /\ NoStartInFlight) => periodic.intervals = {}

\* the background call of main() and a settings call have both set an
\* interval; this.timer holds only the later one
C39_TwoTimers ==
    /\ periodic.intervals = {"main", "settings1"}
    /\ periodic.timer = "settings1"
    /\ NoStartInFlight

\* ------------------------------------------------------------------ one watcher

\* no initialize() call is between its first and its last await
NoInitializeInFlight == \A c \in InitCallers : mgr.init[c].pc \in {"idle", "done"}

\* C38: a manager has at most one open watch handle at any time, and after
\* shutdown() has returned and every initialize() call in flight has
\* finished no handle is open and the registry is empty.
C38_OneWatcher ==
    /\ Cardinality(mgr.handles) <= 1
    /\ (mgr.shutdown /\ NoInitializeInFlight) =>
          (mgr.handles = {} /\ registry = EmptyRegistry)

\* the background initialize() of main() and the one of a tool call have
\* both opened a watch handle; this.watcher holds only the later one
C38_TwoWatchers ==
    /\ mgr.handles = {"main", "tool1"}
    /\ mgr.watcher = "tool1"
    /\ ~mgr.shutdown
    /\ NoInitializeInFlight

\* ------------------------------------------------------------------ eventual consistency

\* the registry holds exactly the packages on disk, each with the hash of
\* its current content
Consistent == registry = RegistryOf(disk)

\* C40: once the packages directory no longer changes, and every change
\* has raised a watch event, the registry becomes and stays equal to the
\* disk: its keys are the package directories and every hash is current.
C40_EventuallyConsistent == <>[]Consistent

\* n1 was uninstalled and has an entry in the registry; no timer is
\* pending and no resync or scan is running
C40_StaleEntryStays ==
    /\ ~disk[Str_n1].present
    /\ registry[Str_n1].present
    /\ ~mgr.debounceTimer
    /\ mgr.resync.pc = "idle"
    /\ mgr.toolScan.pc = "idle"

====
